---- MODULE Spec2Model ----
\* A model of json-stream-visit (src/src/core.ts): the chunk-spanning scanner,
\* the buffered token stream built on it, and the visitor driver.
\*
\* Text is a sequence of code units, each a one-character string.  Indices
\* into a chunk are the 0-based indices of the source (lastIndex, endIndex,
\* startIndex): the code unit at index i of chunk c is c[i + 1].
EXTENDS Integers, Sequences, FiniteSets, TLC

\* ------------------------------------------------------------------------
\* 1. SCANNER
\* ------------------------------------------------------------------------

QUOTE == "\""
BACKSLASH == "\\"

\* The whitespace class of the three patterns: space, tab, LF, CR.
Whitespace == {" ", "\t", "\n", "\r"}

\* The keys of TOKEN_TYPE_MAP.
Structural == {"{", "}", "[", "]", ",", ":"}

\* What the dot of a pattern without the s flag does not match.  LF and CR
\* are the line terminators of the model's alphabet.
LineTerminator == {"\n", "\r"}

\* The complement of the class of NS_ATOM_CONT and of the last alternative of
\* TOKEN_PREFIX.
Delimiter == Whitespace \cup Structural \cup {QUOTE}

TOKEN_TYPE_MAP(symbol) ==
  CASE symbol = "{" -> "BeginObject"
    [] symbol = "}" -> "EndObject"
    [] symbol = "[" -> "BeginArray"
    [] symbol = "]" -> "EndArray"
    [] symbol = "," -> "ValueSeparator"
    [] symbol = ":" -> "NameSeparator"
    [] OTHER -> "Atom"

TokenType ==
  {"BeginObject", "EndObject", "BeginArray", "EndArray", "ValueSeparator",
   "NameSeparator", "Atom"}

\* The value of a variable that holds no token, no match group, no visitor.
Undefined == [undefined |-> TRUE]

Token(type, endIndex) == [type |-> type, endIndex |-> endIndex]

\* The leading whitespace run of TOKEN_PREFIX from index i: the index of the
\* first code unit that is not whitespace, or the chunk's length.
RECURSIVE SkipWhitespace(_, _)
SkipWhitespace(chunk, i) ==
  IF i < Len(chunk) /\ chunk[i + 1] \in Whitespace
  THEN SkipWhitespace(chunk, i + 1)
  ELSE i

\* An NS_ATOM_CONT whose class left out the structural symbols.
RECURSIVE NsAtomContToWhitespace(_, _)
NsAtomContToWhitespace(chunk, i) ==
  IF i < Len(chunk) /\ chunk[i + 1] \notin Whitespace \cup {QUOTE}
  THEN NsAtomContToWhitespace(chunk, i + 1)
  ELSE i

\* NS_ATOM_CONT matched at index i (sticky): the index where the run of
\* code units that are no delimiter ends.
RECURSIVE NS_ATOM_CONT(_, _)
NS_ATOM_CONT(chunk, i) ==
  IF i < Len(chunk) /\ chunk[i + 1] \notin Delimiter
  THEN NS_ATOM_CONT(chunk, i + 1)
  ELSE i

\* STRING_CONT matched at index i (sticky).  The starred group takes, one
\* iteration at a time, a code unit that is neither backslash nor quote, or
\* a backslash with the code unit after it (any but a line terminator), or
\* a backslash at the very end of the chunk (the group with $, the hanging
\* escape); a backslash before a line terminator matches no alternative and
\* ends the repetition.  Then the optional closing quote.
\* lastIndex, hangingEscape (the $ group took part) and closed (the quote
\* group took part) are returned.
RECURSIVE STRING_CONT(_, _)
STRING_CONT(chunk, i) ==
  IF i >= Len(chunk)
  THEN [lastIndex |-> i, hangingEscape |-> FALSE, closed |-> FALSE]
  ELSE LET c == chunk[i + 1] IN
    IF c = QUOTE
    THEN [lastIndex |-> i + 1, hangingEscape |-> FALSE, closed |-> TRUE]
    ELSE IF c = BACKSLASH
    THEN IF i + 1 = Len(chunk)
         THEN [lastIndex |-> i + 1, hangingEscape |-> TRUE, closed |-> FALSE]
         ELSE IF chunk[i + 2] \in LineTerminator
         THEN [lastIndex |-> i, hangingEscape |-> FALSE, closed |-> FALSE]
         ELSE STRING_CONT(chunk, i + 2)
    ELSE STRING_CONT(chunk, i + 1)

\* A TOKEN_PREFIX whose match of a structural symbol ran one code unit past
\* the symbol.
TokenPrefixOvershoot(chunk, i) ==
  LET s == SkipWhitespace(chunk, i) IN
  IF s = Len(chunk)
  THEN [startIndex |-> s, lastIndex |-> s, hangingEscape |-> FALSE,
        closed |-> FALSE]
  ELSE IF chunk[s + 1] \in Structural
  THEN [startIndex |-> s, lastIndex |-> s + 2, hangingEscape |-> FALSE,
        closed |-> FALSE]
  ELSE IF chunk[s + 1] = QUOTE
  THEN [startIndex |-> s] @@ STRING_CONT(chunk, s + 1)
  ELSE [startIndex |-> s, lastIndex |-> NS_ATOM_CONT(chunk, s),
        hangingEscape |-> FALSE, closed |-> FALSE]

\* TOKEN_PREFIX matched at index i (sticky, with indices): optional
\* whitespace, the empty group that records where the token starts, then a
\* structural symbol, or a string prefix, or a possibly empty run of other
\* code units.  startIndex is the start of the group, lastIndex the end of
\* the match.
TOKEN_PREFIX(chunk, i) ==
  LET s == SkipWhitespace(chunk, i) IN
  IF s = Len(chunk)
  THEN [startIndex |-> s, lastIndex |-> s, hangingEscape |-> FALSE,
        closed |-> FALSE]
  ELSE IF chunk[s + 1] \in Structural
  THEN [startIndex |-> s, lastIndex |-> s + 1, hangingEscape |-> FALSE,
        closed |-> FALSE]
  ELSE IF chunk[s + 1] = QUOTE
  THEN [startIndex |-> s] @@ STRING_CONT(chunk, s + 1)
  ELSE [startIndex |-> s, lastIndex |-> NS_ATOM_CONT(chunk, s),
        hangingEscape |-> FALSE, closed |-> FALSE]

\* The state a scanner keeps between calls, and what a call returns with it.
ScannerState(pendingToken, pendingSkip, pendingCont, tokens) ==
  [pendingToken |-> pendingToken, pendingSkip |-> pendingSkip,
   pendingCont |-> pendingCont, tokens |-> tokens]

\* A fresh scanner.  chunkIndex is only ever incremented, never read, and is
\* left out of the state.
NewScanner == ScannerState(Undefined, 0, "STRING_CONT", <<>>)

\* A while loop that returned a bare atom at the end of the chunk at once
\* and left nothing pending for it.
RECURSIVE ScanLoopEager(_, _, _)
ScanLoopEager(chunk, i, s) ==
  IF ~(i < Len(chunk)) THEN s
  ELSE LET match == TOKEN_PREFIX(chunk, i)
           startIndex == match.startIndex
           endIndex == match.lastIndex
       IN
    IF startIndex = Len(chunk) THEN s
    ELSE LET symbol == chunk[startIndex + 1]
             type == TOKEN_TYPE_MAP(symbol)
             token == Token(type, endIndex)
         IN
      IF type = "Atom" /\ symbol = QUOTE /\ ~match.closed
      THEN ScanLoopEager(chunk, endIndex,
                         ScannerState(token,
                                      IF match.hangingEscape THEN 1 ELSE 0,
                                      "STRING_CONT", s.tokens))
      ELSE ScanLoopEager(chunk, endIndex,
                         [s EXCEPT !.tokens = Append(s.tokens, token)])

\* The while loop of a scanner call, from TOKEN_PREFIX.lastIndex = i, with
\* the state and the tokens collected so far in s.
RECURSIVE ScanLoop(_, _, _)
ScanLoop(chunk, i, s) ==
  IF ~(i < Len(chunk)) THEN s
  ELSE LET match == TOKEN_PREFIX(chunk, i)
           startIndex == match.startIndex
           endIndex == match.lastIndex
       IN
    IF startIndex = Len(chunk) THEN s
    ELSE LET symbol == chunk[startIndex + 1]
             type == TOKEN_TYPE_MAP(symbol)
             token == Token(type, endIndex)
         IN
      IF type = "Atom" /\ symbol = QUOTE /\ ~match.closed
      THEN ScanLoop(chunk, endIndex,
                    ScannerState(token, IF match.hangingEscape THEN 1 ELSE 0,
                                 "STRING_CONT", s.tokens))
      ELSE IF type = "Atom" /\ symbol # QUOTE /\ endIndex = Len(chunk)
      THEN ScanLoop(chunk, endIndex,
                    ScannerState(token, 0, "NS_ATOM_CONT", s.tokens))
      ELSE ScanLoop(chunk, endIndex,
                    [s EXCEPT !.tokens = Append(s.tokens, token)])

\* A scanner that resumed every pending token with NS_ATOM_CONT, whatever
\* pattern the token was left with.
PendingContAlwaysAtom(pendingCont, chunk, i) ==
  [lastIndex |-> NS_ATOM_CONT(chunk, i), hangingEscape |-> FALSE,
   closed |-> FALSE]

\* The continuation pattern a pending token is resumed with.
PendingContExec(pendingCont, chunk, i) ==
  IF pendingCont = "STRING_CONT"
  THEN STRING_CONT(chunk, i)
  ELSE [lastIndex |-> NS_ATOM_CONT(chunk, i), hangingEscape |-> FALSE,
        closed |-> FALSE]

\* A scanner that started every chunk at TOKEN_PREFIX, pending token or not.
ScanChunkFresh(s, chunk) == ScanLoop(chunk, 0, [s EXCEPT !.tokens = <<>>])

\* A scanner that resumed a pending token at the start of the chunk, with
\* no code unit to skip.
ScanChunkNoSkip(s, chunk) ==
  LET s0 == [s EXCEPT !.tokens = <<>>] IN
  IF s0.pendingToken # Undefined
  THEN LET match == PendingContExec(s0.pendingCont, chunk, 0)
           endIndex == match.lastIndex
           token == Token(s0.pendingToken.type, endIndex)
           s1 == IF endIndex < Len(chunk) \/ match.closed
                 THEN [s0 EXCEPT !.tokens = <<token>>,
                                 !.pendingToken = Undefined]
                 ELSE [s0 EXCEPT !.pendingToken = token,
                                 !.pendingSkip =
                                   IF match.hangingEscape THEN 1 ELSE 0]
       IN ScanLoop(chunk, endIndex, s1)
  ELSE ScanLoop(chunk, 0, s0)

\* A scanner that returned a resumed token with the end it had in the
\* earlier chunk.
ScanChunkNoRestamp(s, chunk) ==
  LET s0 == [s EXCEPT !.tokens = <<>>] IN
  IF s0.pendingToken # Undefined
  THEN IF s0.pendingSkip >= Len(chunk)
       THEN [s0 EXCEPT !.pendingSkip = s0.pendingSkip - Len(chunk)]
       ELSE LET match == PendingContExec(s0.pendingCont, chunk, s0.pendingSkip)
                endIndex == match.lastIndex
                s1 == IF endIndex < Len(chunk) \/ match.closed
                      THEN [s0 EXCEPT !.tokens = <<s0.pendingToken>>,
                                      !.pendingToken = Undefined]
                      ELSE [s0 EXCEPT !.pendingSkip =
                                        IF match.hangingEscape THEN 1 ELSE 0]
            IN ScanLoop(chunk, endIndex, s1)
  ELSE ScanLoop(chunk, 0, s0)

\* One call of the scanner with a chunk: the state s of the scanner before
\* the call gives the state after it, with the tokens the call returns.
ScanChunk(s, chunk) ==
  LET s0 == [s EXCEPT !.tokens = <<>>] IN
  IF s0.pendingToken # Undefined
  THEN IF s0.pendingSkip >= Len(chunk)
       THEN [s0 EXCEPT !.pendingSkip = s0.pendingSkip - Len(chunk)]
       ELSE LET match == PendingContExec(s0.pendingCont, chunk, s0.pendingSkip)
                endIndex == match.lastIndex
                token == Token(s0.pendingToken.type, endIndex)
                s1 == IF endIndex < Len(chunk) \/ match.closed
                      THEN [s0 EXCEPT !.tokens = <<token>>,
                                      !.pendingToken = Undefined]
                      ELSE [s0 EXCEPT !.pendingToken = token,
                                      !.pendingSkip =
                                        IF match.hangingEscape THEN 1 ELSE 0]
            IN ScanLoop(chunk, endIndex, s1)
  ELSE ScanLoop(chunk, 0, s0)

\* The lastIndex of the three patterns, which are objects of the module and
\* so the same for every scanner: as they are when the module is loaded.
NewLastIndex == [TOKEN_PREFIX |-> 0, STRING_CONT |-> 0, NS_ATOM_CONT |-> 0]

\* A call that left TOKEN_PREFIX.lastIndex as it found it.
TokenPrefixNotReset(lastIndex) == lastIndex

\* TOKEN_PREFIX.lastIndex = 0, the first statement of a call with a chunk.
ResetTokenPrefix(lastIndex) == [lastIndex EXCEPT !.TOKEN_PREFIX = 0]

\* The while loop of a call, started where TOKEN_PREFIX.lastIndex is: the
\* state and tokens it gives, and the lastIndex it leaves (the loop ends
\* with a match that reached the end of the chunk, or is not entered).
ScanLoopAt(chunk, s, lastIndex) ==
  [scanner |-> ScanLoop(chunk, lastIndex.TOKEN_PREFIX, s),
   lastIndex |-> [lastIndex EXCEPT !.TOKEN_PREFIX =
                    IF @ < Len(chunk) THEN Len(chunk) ELSE @]]

\* One call of the scanner with a chunk, with the patterns as the call
\* finds them: the scanner after the call with the tokens returned, and the
\* patterns as the call leaves them.
ScanChunkAt(s, chunk, lastIndex) ==
  LET s0 == [s EXCEPT !.tokens = <<>>]
      l0 == ResetTokenPrefix(lastIndex)
  IN
  IF s0.pendingToken # Undefined
  THEN IF s0.pendingSkip >= Len(chunk)
       THEN [scanner |-> [s0 EXCEPT !.pendingSkip = s0.pendingSkip - Len(chunk)],
             lastIndex |-> l0]
       ELSE LET l1 == [l0 EXCEPT ![s0.pendingCont] = s0.pendingSkip]
                match == PendingContExec(s0.pendingCont, chunk,
                                         l1[s0.pendingCont])
                endIndex == match.lastIndex
                token == Token(s0.pendingToken.type, endIndex)
                s1 == IF endIndex < Len(chunk) \/ match.closed
                      THEN [s0 EXCEPT !.tokens = <<token>>,
                                      !.pendingToken = Undefined]
                      ELSE [s0 EXCEPT !.pendingToken = token,
                                      !.pendingSkip =
                                        IF match.hangingEscape THEN 1 ELSE 0]
                l2 == [l1 EXCEPT ![s0.pendingCont] = endIndex,
                                 !.TOKEN_PREFIX = endIndex]
            IN ScanLoopAt(chunk, s1, l2)
  ELSE ScanLoopAt(chunk, s0, l0)

\* A call with no chunk that returned the pending token and kept it.
ScanEndKeeps(s) ==
  IF s.pendingToken # Undefined
  THEN [s EXCEPT !.tokens = <<s.pendingToken>>]
  ELSE [s EXCEPT !.tokens = <<>>]

\* The call of the scanner with no chunk, the end of the stream.
ScanEnd(s) ==
  IF s.pendingToken # Undefined
  THEN [s EXCEPT !.tokens = <<s.pendingToken>>, !.pendingToken = Undefined]
  ELSE [s EXCEPT !.tokens = <<>>]

\* ------------------------------------------------------------------------
\* JSON.parse, the whole-value parser the visitor hands buffered text to.
\* It is a built-in of the platform, modelled here by what it does (RFC 8259)
\* on texts over the alphabet of the model's documents: the structural
\* symbols, whitespace, quote, backslash, decimal digits and the letters of
\* Letter.  A value is a record tagged with its type; text that is no JSON
\* value makes JSON.parse throw, which is ok = FALSE here.
\* ------------------------------------------------------------------------

Digit == {"0", "1", "2", "3", "4", "5", "6", "7", "8", "9"}

\* The letters of the model's documents.  None of them is u, b, n or a
\* slash, so the escapes a string over the alphabet can hold are those of
\* Unescape, and none is E, a sign or a dot, so a number is digits with an
\* optional exponent e.
Letter == {"a", "c", "e", "f", "l", "o", "p", "r", "s", "t", "_"}

Alphabet == Structural \cup {" ", "\n", QUOTE, BACKSLASH} \cup Digit \cup Letter

DigitValue(c) ==
  CASE c = "0" -> 0 [] c = "1" -> 1 [] c = "2" -> 2 [] c = "3" -> 3
    [] c = "4" -> 4 [] c = "5" -> 5 [] c = "6" -> 6 [] c = "7" -> 7
    [] c = "8" -> 8 [] c = "9" -> 9

\* The code units of the alphabet that may follow a backslash in a string,
\* and the code unit each escape sequence stands for.
Escapable == {QUOTE, BACKSLASH, "f", "r", "t"}

Unescape(c) ==
  CASE c = QUOTE -> QUOTE
    [] c = BACKSLASH -> BACKSLASH
    [] c = "f" -> "\f"
    [] c = "r" -> "\r"
    [] c = "t" -> "\t"

ParseFail == [ok |-> FALSE]
ParseOk(v, i) == [ok |-> TRUE, v |-> v, i |-> i]

\* Positions in a text being parsed are 1-based positions of the sequence.
RECURSIVE ParseWs(_, _)
ParseWs(text, i) ==
  IF i <= Len(text) /\ text[i] \in Whitespace THEN ParseWs(text, i + 1) ELSE i

\* The code units of a string after its opening quote, decoded.
RECURSIVE ParseChars(_, _, _)
ParseChars(text, i, acc) ==
  IF i > Len(text) THEN ParseFail
  ELSE IF text[i] = QUOTE THEN ParseOk([t |-> "string", v |-> acc], i + 1)
  ELSE IF text[i] = BACKSLASH
  THEN IF i + 1 > Len(text) \/ text[i + 1] \notin Escapable
       THEN ParseFail
       ELSE ParseChars(text, i + 2, Append(acc, Unescape(text[i + 1])))
  ELSE IF text[i] \in {"\n", "\r", "\t", "\f"} THEN ParseFail
  ELSE ParseChars(text, i + 1, Append(acc, text[i]))

\* A run of digits from position i with the number read so far: the value
\* and the position after the run.
RECURSIVE ParseDigits(_, _, _)
ParseDigits(text, i, n) ==
  IF i <= Len(text) /\ text[i] \in Digit
  THEN ParseDigits(text, i + 1, 10 * n + DigitValue(text[i]))
  ELSE [n |-> n, i |-> i]

RECURSIVE Pow10(_)
Pow10(k) == IF k = 0 THEN 1 ELSE 10 * Pow10(k - 1)

\* A number at position i, where a digit stands: no leading zero, then an
\* optional exponent.
ParseNumber(text, i) ==
  LET int == IF text[i] = "0" THEN [n |-> 0, i |-> i + 1]
             ELSE ParseDigits(text, i, 0)
  IN IF int.i <= Len(text) /\ text[int.i] = "e"
     THEN LET exp == ParseDigits(text, int.i + 1, 0) IN
          IF exp.i = int.i + 1 THEN ParseFail
          ELSE ParseOk([t |-> "number", v |-> int.n * Pow10(exp.n)], exp.i)
     ELSE ParseOk([t |-> "number", v |-> int.n], int.i)

\* Whether the code units of word stand in text from position i.
HasWord(text, i, word) ==
  /\ i + Len(word) - 1 <= Len(text)
  /\ SubSeq(text, i, i + Len(word) - 1) = word

RECURSIVE ParseValue(_, _)
RECURSIVE ParseElements(_, _, _)
RECURSIVE ParseMembers(_, _, _)

\* The elements of an array after its opening bracket or after a comma.
ParseElements(text, i, acc) ==
  LET e == ParseValue(text, i) IN
  IF ~e.ok THEN ParseFail
  ELSE LET j == ParseWs(text, e.i) IN
    IF j > Len(text) THEN ParseFail
    ELSE IF text[j] = "," THEN ParseElements(text, j + 1, Append(acc, e.v))
    ELSE IF text[j] = "]"
    THEN ParseOk([t |-> "array", v |-> Append(acc, e.v)], j + 1)
    ELSE ParseFail

\* The members of an object after its opening brace or after a comma, in
\* the order of the text.
ParseMembers(text, i, acc) ==
  LET k == ParseWs(text, i) IN
  IF k > Len(text) \/ text[k] # QUOTE THEN ParseFail
  ELSE LET key == ParseChars(text, k + 1, <<>>) IN
    IF ~key.ok THEN ParseFail
    ELSE LET c == ParseWs(text, key.i) IN
      IF c > Len(text) \/ text[c] # ":" THEN ParseFail
      ELSE LET e == ParseValue(text, c + 1) IN
        IF ~e.ok THEN ParseFail
        ELSE LET j == ParseWs(text, e.i)
                 members == Append(acc, [key |-> key.v.v, value |-> e.v])
             IN
          IF j > Len(text) THEN ParseFail
          ELSE IF text[j] = "," THEN ParseMembers(text, j + 1, members)
          ELSE IF text[j] = "}"
          THEN ParseOk([t |-> "object", v |-> members], j + 1)
          ELSE ParseFail

\* A value that starts at or after position i, after optional whitespace.
ParseValue(text, i) ==
  LET s == ParseWs(text, i) IN
  IF s > Len(text) THEN ParseFail
  ELSE IF text[s] = "{"
  THEN LET j == ParseWs(text, s + 1) IN
       IF j <= Len(text) /\ text[j] = "}"
       THEN ParseOk([t |-> "object", v |-> <<>>], j + 1)
       ELSE ParseMembers(text, s + 1, <<>>)
  ELSE IF text[s] = "["
  THEN LET j == ParseWs(text, s + 1) IN
       IF j <= Len(text) /\ text[j] = "]"
       THEN ParseOk([t |-> "array", v |-> <<>>], j + 1)
       ELSE ParseElements(text, s + 1, <<>>)
  ELSE IF text[s] = QUOTE THEN ParseChars(text, s + 1, <<>>)
  ELSE IF text[s] \in Digit THEN ParseNumber(text, s)
  ELSE IF HasWord(text, s, <<"t", "r", "u", "e">>)
  THEN ParseOk([t |-> "boolean", v |-> TRUE], s + 4)
  ELSE IF HasWord(text, s, <<"f", "a", "l", "s", "e">>)
  THEN ParseOk([t |-> "boolean", v |-> FALSE], s + 5)
  ELSE IF HasWord(text, s, <<"n", "u", "l", "l">>)
  THEN ParseOk([t |-> "null", v |-> <<>>], s + 4)
  ELSE ParseFail

\* The syntax tree of a whole text: one value with optional whitespace
\* around it.  The members of an object are kept in the order of the text.
JSONTree(text) ==
  LET r == ParseValue(text, 1) IN
  IF r.ok /\ ParseWs(text, r.i) = Len(text) + 1 THEN r ELSE ParseFail

\* The value JSON.parse builds from a syntax tree: an object is the mapping
\* from its keys to their values, the last member of a key winning.
RECURSIVE JSONValue(_)
JSONValue(tree) ==
  IF tree.t = "array"
  THEN [t |-> "array", v |-> [k \in DOMAIN tree.v |-> JSONValue(tree.v[k])]]
  ELSE IF tree.t = "object"
  THEN LET keys == {tree.v[k].key : k \in DOMAIN tree.v}
           last(key) == CHOOSE k \in DOMAIN tree.v :
                          /\ tree.v[k].key = key
                          /\ \A m \in DOMAIN tree.v :
                               tree.v[m].key = key => m <= k
       IN [t |-> "object",
           v |-> [key \in keys |-> JSONValue(tree.v[last(key)].value)]]
  ELSE tree

\* JSON.parse(text): ok and the value v, or ok = FALSE where it throws.
JSONParse(text) ==
  LET r == JSONTree(text) IN
  IF r.ok THEN [ok |-> TRUE, v |-> JSONValue(r.v)] ELSE ParseFail

\* ------------------------------------------------------------------------
\* The machine: one visit(stream, visitor) call with its buffered token
\* stream, its scanner and the upstream producer of chunks.  The operators
\* below take the whole state as a record m, whose fields are the variables
\* of the source (and of the environment), and give the state after a step.
\*
\*   doc, delivered, nchunks, streamDone   the upstream producer: the text it
\*       delivers, how much of it and in how many chunks it has delivered,
\*       and whether it has ended ("end"), failed ("error") or been closed
\*   pendingToken, pendingSkip, pendingCont   scanner()
\*   buffering, bufferedChunks, currentChunk, startIndex, endIndex
\*       bufferedScan()
\*   gen, queue   where the token generator of bufferedScan is suspended and
\*       the tokens of the running for-of loop not yet yielded
\*   visitor, stack, depth, token, pc   visit(): the loop variable token and
\*       where the async function is suspended
\*   calls   the invocations of the visitor's functions, with the state of
\*       the promise each returned
\*   outcome   the promise visit returned: "pending", "fulfilled" or the
\*       error it is rejected with
\*   lastEnd, prevEnd, valueFrom   history: the offsets in doc where the
\*       last token yielded and the one before it end, and the offset where
\*       the token before the first token of the value being buffered or
\*       skipped ends
\* ------------------------------------------------------------------------

\* 2. BUFFERED SCANNER

\* A flush() that returned only the window of the current chunk.
FlushCurrentChunk(m) == SubSeq(m.currentChunk, m.startIndex + 1, m.endIndex)

RECURSIVE Concat(_)
Concat(chunks) ==
  IF chunks = <<>> THEN <<>> ELSE Head(chunks) \o Concat(Tail(chunks))

\* chunk.slice(from, to) for 0 <= from <= to <= chunk.length.
Slice(chunk, from, to) == SubSeq(chunk, from + 1, to)

\* A buffer() that left the flag as it was.
BufferIgnored(m) == m

\* tokens.buffer()
buffer(m) == [m EXCEPT !.buffering = TRUE]

\* tokens.flush(): the string it returns, and the state it leaves.
flush(m) ==
  Concat(m.bufferedChunks) \o Slice(m.currentChunk, m.startIndex, m.endIndex)

Flushed(m) == [m EXCEPT !.buffering = FALSE]

\* The promise visit returned is settled and the async function is over; the
\* for-await loop it leaves closes the token generator, which closes the
\* upstream producer unless that has already finished.
Settle(m, outcome) ==
  [m EXCEPT !.pc = "done", !.outcome = outcome, !.gen = "return",
            !.streamDone = IF m.streamDone = "no" THEN "closed"
                           ELSE m.streamDone]

\* throw: the error leaves visit, which rejects with it.
Throw(m, error) == Settle(m, error)

\* The token generator yields a token of the chunk loop to the for-await
\* loop of visit: endIndex = token.endIndex; yield token.type.
YieldToken(m) ==
  LET tok == Head(m.queue) IN
  [m EXCEPT !.prevEnd = m.lastEnd,
            !.lastEnd = m.delivered - Len(m.currentChunk) + tok.endIndex,
            !.endIndex = tok.endIndex,
            !.queue = Tail(m.queue), !.token = tok.type,
            !.gen = "yield", !.pc = "body"]

\* A generator that saved nothing of a chunk before it asked for the next.
EndOfChunkDrops(m) == [m EXCEPT !.gen = "awaitChunk", !.pc = "awaitToken"]

\* After the last token of a chunk: the part of the chunk from startIndex on
\* is saved, and the next chunk is asked for.
EndOfChunk(m) ==
  LET saved == IF m.startIndex < Len(m.currentChunk)
               THEN [m EXCEPT !.bufferedChunks =
                                Append(m.bufferedChunks,
                                       Slice(m.currentChunk, m.startIndex,
                                             Len(m.currentChunk))),
                              !.startIndex = Len(m.currentChunk),
                              !.endIndex = Len(m.currentChunk)]
               ELSE m
  IN [saved EXCEPT !.gen = "awaitChunk", !.pc = "awaitToken"]

\* The for-of loop over the tokens of the current chunk, at its head.
ChunkLoop(m) == IF m.queue # <<>> THEN YieldToken(m) ELSE EndOfChunk(m)

\* A generator that restarted the window after every yield, buffering or not.
AfterYieldAlways(m) ==
  [m EXCEPT !.startIndex = m.endIndex, !.bufferedChunks = <<>>]

\* A generator that never restarted the window after a yield.
AfterYieldNever(m) == m

\* The statement after the yield of the chunk loop, run when the generator
\* is resumed: the window restarts at the token just yielded unless the
\* consumer is buffering.
AfterYield(m) ==
  IF ~m.buffering
  THEN [m EXCEPT !.startIndex = m.endIndex, !.bufferedChunks = <<>>]
  ELSE m

\* A final loop that threw when the tokens ran out with states left on the
\* stack of visit.
FinalLoopStrict(m) ==
  IF m.queue # <<>>
  THEN [m EXCEPT !.prevEnd = m.lastEnd, !.lastEnd = m.delivered,
                 !.queue = Tail(m.queue),
                 !.token = Head(m.queue).type, !.gen = "yieldEnd",
                 !.pc = "body"]
  ELSE IF m.stack # <<>> THEN Throw(m, "SyntaxError: unexpected end")
  ELSE Settle(m, "fulfilled")

\* The for-of loop over the tokens of scan(), after the upstream has ended:
\* yield token.type, with the window left as it is.
FinalLoop(m) ==
  IF m.queue # <<>>
  THEN [m EXCEPT !.prevEnd = m.lastEnd, !.lastEnd = m.delivered,
                 !.queue = Tail(m.queue),
                 !.token = Head(m.queue).type, !.gen = "yieldEnd",
                 !.pc = "body"]
  ELSE Settle(m, "fulfilled")

\* tokens.next(), called by the for-await loop of visit: the generator runs
\* from where it is suspended to its next yield, to its next wait for a
\* chunk, or to its end, which ends the loop and visit with it.
TokensNext(m) ==
  CASE m.gen = "start" -> [m EXCEPT !.gen = "awaitChunk", !.pc = "awaitToken"]
    [] m.gen = "yield" -> ChunkLoop(AfterYield(m))
    [] m.gen = "yieldEnd" -> FinalLoop(m)

\* The upstream producer delivers the next n code units of doc as a chunk:
\* the generator restarts the window, scans the chunk and runs its loop.
StreamChunk(m, n) ==
  LET chunk == SubSeq(m.doc, m.delivered + 1, m.delivered + n)
      sc == ScanChunk(ScannerState(m.pendingToken, m.pendingSkip,
                                   m.pendingCont, <<>>), chunk)
  IN ChunkLoop([m EXCEPT !.delivered = m.delivered + n,
                         !.nchunks = m.nchunks + 1,
                         !.currentChunk = chunk,
                         !.startIndex = 0, !.endIndex = 0,
                         !.pendingToken = sc.pendingToken,
                         !.pendingSkip = sc.pendingSkip,
                         !.pendingCont = sc.pendingCont,
                         !.queue = sc.tokens])

\* StreamChunk with the patterns as the call of the scanner finds them: the
\* state it gives and the patterns as it leaves them.
StreamChunkAt(m, n, lastIndex) ==
  LET chunk == SubSeq(m.doc, m.delivered + 1, m.delivered + n)
      sc == ScanChunkAt(ScannerState(m.pendingToken, m.pendingSkip,
                                     m.pendingCont, <<>>), chunk, lastIndex)
  IN [m |-> ChunkLoop([m EXCEPT !.delivered = m.delivered + n,
                                !.nchunks = m.nchunks + 1,
                                !.currentChunk = chunk,
                                !.startIndex = 0, !.endIndex = 0,
                                !.pendingToken = sc.scanner.pendingToken,
                                !.pendingSkip = sc.scanner.pendingSkip,
                                !.pendingCont = sc.scanner.pendingCont,
                                !.queue = sc.scanner.tokens]),
      lastIndex |-> sc.lastIndex]

\* A generator that ended with the stream and never called the scanner
\* with no chunk.
StreamEndNoScan(m) == FinalLoop([m EXCEPT !.streamDone = "end"])

\* The upstream producer ends: the scanner is called with no chunk.
StreamEnd(m) ==
  LET sc == ScanEnd(ScannerState(m.pendingToken, m.pendingSkip,
                                 m.pendingCont, <<>>))
  IN FinalLoop([m EXCEPT !.streamDone = "end",
                         !.pendingToken = sc.pendingToken,
                         !.queue = sc.tokens])

\* The upstream producer fails: the error passes through the generator and
\* the for-await loop and leaves visit.
StreamError(m) == Throw([m EXCEPT !.streamDone = "error"], "upstream error")

\* 3. VISITOR

\* A visitor is a function, an array visitor or an object visitor.  A
\* function has a name and what it does when it is called (returns): it
\* returns a value that is no promise ("value"), or throws ("throws"), or
\* returns a promise that is later fulfilled ("promise") or rejected
\* ("rejects").  An object visitor maps its own keys to visitors.
Function(name, returns) == [t |-> "function", name |-> name, returns |-> returns]

\* array(inner)
array(inner) == [t |-> "array", inner |-> inner]

\* An object literal: its own properties, and Object.prototype behind them.
Object(entries) ==
  [t |-> "object", entries |-> entries, proto |-> "Object.prototype"]

\* Object.prototype itself, read as a visitor.  No own property of it has a
\* name over the model's alphabet but the accessor __proto__, which gives
\* its prototype, null.
ObjectPrototype == [t |-> "object", entries |-> <<>>, proto |-> "null"]
Null == [t |-> "null"]
PROTO == <<"_", "_", "p", "r", "o", "t", "o", "_", "_">>

\* The decimal digits of a natural number.
RECURSIVE Decimal(_)
Decimal(n) ==
  LET d == CHOOSE c \in Digit : DigitValue(c) = n % 10 IN
  IF n < 10 THEN <<d>> ELSE Append(Decimal(n \div 10), d)

\* The property name a parsed key is converted to when it indexes an object.
PropertyKey(value) ==
  CASE value.t = "string" -> value.v
    [] value.t = "number" -> Decimal(value.v)
    [] value.t = "boolean" ->
         IF value.v THEN <<"t", "r", "u", "e">> ELSE <<"f", "a", "l", "s", "e">>
    [] value.t = "null" -> <<"n", "u", "l", "l">>

\* visitor[key]: an own property, or one inherited along the prototype
\* chain, or undefined.
Lookup(visitor, key) ==
  IF key \in DOMAIN visitor.entries THEN visitor.entries[key]
  ELSE IF key = PROTO
  THEN IF visitor.proto = "Object.prototype" THEN ObjectPrototype ELSE Null
  ELSE Undefined

VisitState(id, value) == [id |-> id, value |-> value]

\* class SyntaxError extends Error {}: the errors visit constructs with it.
\* The errors of the cases ArrayPostValue and ObjectPostValue are made with
\* Error itself and are no instances of it.
SyntaxErrors ==
  {"SyntaxError: unbalanced delimiters", "SyntaxError: expected array",
   "SyntaxError: expected object", "SyntaxError: expected string",
   "SyntaxError: expected colon"}

\* stateFromVisitor, for a visitor that is an object or a function.
stateFromVisitor(visitor) ==
  IF visitor.t = "function" THEN VisitState("ValueBuffering", visitor)
  ELSE IF visitor.t = "array" THEN VisitState("ArrayPreBegin", visitor.inner)
  ELSE VisitState("ObjectPreBegin", visitor)

\* A table with no change of depth for any token.
DepthDeltaFlat(token) == 0

DEPTH_DELTA(token) ==
  CASE token \in {"BeginObject", "BeginArray"} -> 1
    [] token \in {"EndObject", "EndArray"} -> -1
    [] OTHER -> 0

Top(stack) == stack[Len(stack)]
Pop(stack) == SubSeq(stack, 1, Len(stack) - 1)
Push(stack, state) == Append(stack, state)

\* The states of an array visit has descended into; their value is the
\* start state of the elements.
ArrayStates == {"ArrayPostBegin", "ArrayPostValue", "ArrayPreEnd"}

\* stack.push(state.value) puts on the stack the very object the state of
\* the array holds: the state on top is that object when the state below
\* it is the state of an array that holds it.  (Every other state on the
\* stack is an object made for it and held by nothing else.)
TopIsInnerStart(stack) ==
  /\ Len(stack) > 1
  /\ stack[Len(stack) - 1].id \in ArrayStates
  /\ stack[Len(stack) - 1].value.id = Top(stack).id
  /\ stack[Len(stack) - 1].value = Top(stack)

\* state.id = id for the state on top of the stack: an assignment to the
\* object, seen through every reference to it.
SetTopId(stack, id) ==
  IF TopIsInnerStart(stack)
  THEN [stack EXCEPT ![Len(stack)].id = id, ![Len(stack) - 1].value.id = id]
  ELSE [stack EXCEPT ![Len(stack)].id = id]

\* The end of an iteration of the for-await loop: the next token is asked for.
Continue(m) == [m EXCEPT !.pc = "loop"]

\* A visit that awaited nothing a visitor function returned.
AwaitsNothing(returns) == FALSE

\* Whether visit suspends on what a visitor function returned until a
\* promise settles: await of a promise.  (await of another value resumes
\* with nothing in between that the model shows.)
Awaits(returns) == returns \in {"promise", "rejects"}

\* state.value(JSON.parse(tokens.flush())) and the await of its result, for
\* the function fn and the parsed value arg.
CallVisitor(m, fn, arg) ==
  LET call(status) == [name |-> fn.name, arg |-> arg, returns |-> fn.returns,
                       status |-> status, from |-> m.valueFrom,
                       to |-> m.lastEnd]
      result == IF fn.returns \in {"promise", "rejects"} THEN "pending"
                ELSE "returned"
  IN IF fn.returns = "throws"
     THEN Throw([m EXCEPT !.calls = Append(m.calls, call("threw"))],
                "callback error")
     ELSE IF Awaits(fn.returns)
     THEN [m EXCEPT !.calls = Append(m.calls, call(result)),
                    !.pc = "awaitCallback"]
     ELSE Continue([m EXCEPT !.calls = Append(m.calls, call(result)),
                             !.stack = Pop(m.stack)])

\* A visit that dropped the value or key JSON.parse threw on and went on.
ParseErrorSkips(m) == Continue([m EXCEPT !.stack = Pop(m.stack)])

\* JSON.parse threw on the text flushed for a value or a key: the error
\* leaves visit.
ParseError(m) == Throw(m, "JSON.parse SyntaxError")

\* Value cases that took every token for a whole value: the state is popped
\* after each token, whatever depth has become.
VisitValuePopsEachToken(m, state) ==
  LET depth == m.depth + DEPTH_DELTA(m.token)
      m2 == [m EXCEPT !.depth = depth]
  IN IF depth < 0 THEN Throw(m2, "SyntaxError: unbalanced delimiters")
     ELSE Continue([m2 EXCEPT !.stack = Pop(m2.stack)])

\* Value cases that went on with a negative depth.
VisitValueUnbalanced(m, state) ==
  LET m0 == IF m.depth = 0 THEN [m EXCEPT !.valueFrom = m.prevEnd] ELSE m
      m1 == IF state.id = "ValueBuffering" /\ m.depth = 0 THEN buffer(m0)
            ELSE m0
      depth == m.depth + DEPTH_DELTA(m.token)
      m2 == [m1 EXCEPT !.depth = depth]
  IN IF depth = 0
     THEN IF state.id = "ValueBuffering"
          THEN LET parsed == JSONParse(flush(m2)) IN
               IF ~parsed.ok THEN ParseError(Flushed(m2))
               ELSE CallVisitor(Flushed(m2), state.value, parsed.v)
          ELSE Continue([m2 EXCEPT !.stack = Pop(m2.stack)])
     ELSE Continue(m2)

\* The cases ValueBuffering and ValueSkipping of the switch.
VisitValue(m, state) ==
  LET m0 == IF m.depth = 0 THEN [m EXCEPT !.valueFrom = m.prevEnd] ELSE m
      m1 == IF state.id = "ValueBuffering" /\ m.depth = 0 THEN buffer(m0)
            ELSE m0
      depth == m.depth + DEPTH_DELTA(m.token)
      m2 == [m1 EXCEPT !.depth = depth]
  IN IF depth = 0
     THEN IF state.id = "ValueBuffering"
          THEN LET parsed == JSONParse(flush(m2)) IN
               IF ~parsed.ok THEN ParseError(Flushed(m2))
               ELSE CallVisitor(Flushed(m2), state.value, parsed.v)
          ELSE Continue([m2 EXCEPT !.stack = Pop(m2.stack)])
     ELSE IF depth < 0 THEN Throw(m2, "SyntaxError: unbalanced delimiters")
     ELSE Continue(m2)

\* An ArrayPreBegin case that took any token for the begin of an array.
ArrayPreBeginUnchecked(m, state) ==
  Continue([m EXCEPT !.stack =
    Push(Pop(m.stack),
         VisitState("ArrayPostBegin", stateFromVisitor(state.value)))])

\* The case ArrayPreBegin.
ArrayPreBegin(m, state) ==
  IF m.token # "BeginArray" THEN Throw(m, "SyntaxError: expected array")
  ELSE Continue([m EXCEPT !.stack =
         Push(Pop(m.stack),
              VisitState("ArrayPostBegin", stateFromVisitor(state.value)))])

\* An ArrayPostValue case that pushed no state for the element after a comma.
ArrayPostValueNoPush(m, state) ==
  IF m.token # "EndArray"
  THEN IF m.token # "ValueSeparator"
       THEN Throw(m, "Error: expected array end or comma")
       ELSE Continue(m)
  ELSE Continue([m EXCEPT !.stack = Pop(m.stack)])

\* The case ArrayPostValue, which falls through to ArrayPreEnd on end-array.
ArrayPostValue(m, state) ==
  IF m.token # "EndArray"
  THEN IF m.token # "ValueSeparator"
       THEN Throw(m, "Error: expected array end or comma")
       ELSE Continue([m EXCEPT !.stack = Push(m.stack, state.value)])
  ELSE Continue([m EXCEPT !.stack = Pop(m.stack)])

\* An ArrayPreEnd case that left the state on the stack.
ArrayPreEndStays(m, state) == Continue(m)

\* The case ArrayPreEnd.
ArrayPreEnd(m, state) == Continue([m EXCEPT !.stack = Pop(m.stack)])

\* An ObjectPreBegin case that made the state it was given ObjectPostBegin
\* and left it on the stack.
ObjectPreBeginInPlace(m, state) ==
  IF m.token # "BeginObject" THEN Throw(m, "SyntaxError: expected object")
  ELSE Continue([m EXCEPT !.stack = SetTopId(m.stack, "ObjectPostBegin")])

\* The case ObjectPreBegin.
ObjectPreBegin(m, state) ==
  IF m.token # "BeginObject" THEN Throw(m, "SyntaxError: expected object")
  ELSE Continue([m EXCEPT !.stack =
         Push(Pop(m.stack), VisitState("ObjectPostBegin", state.value))])

\* The case ObjectPreKey.
ObjectPreKey(m, state) ==
  IF m.token # "Atom" THEN Throw(m, "SyntaxError: expected string")
  ELSE LET parsed == JSONParse(flush(m))
           m1 == Flushed(m)
       IN
    IF ~parsed.ok THEN ParseError(m1)
    ELSE LET visitor == Lookup(state.value, PropertyKey(parsed.v))
             stack == SetTopId(m1.stack, "ObjectPostValue")
         IN
      IF visitor = Undefined
      THEN Continue([m1 EXCEPT !.stack =
             Push(stack, VisitState("ObjectPostKey",
                                    VisitState("ValueSkipping", Undefined)))])
      ELSE IF visitor = Null
      THEN Throw([m1 EXCEPT !.stack = stack], "TypeError")
      ELSE Continue([m1 EXCEPT !.stack =
             Push(stack, VisitState("ObjectPostKey",
                                    stateFromVisitor(visitor)))])

\* The case ObjectPostBegin, which falls through to ObjectPreKey unless the
\* token is end-object.
ObjectPostBegin(m, state) ==
  IF m.token = "EndObject" THEN Continue([m EXCEPT !.stack = Pop(m.stack)])
  ELSE ObjectPreKey(m, state)

\* The case ObjectPostKey.
ObjectPostKey(m, state) ==
  IF m.token # "NameSeparator" THEN Throw(m, "SyntaxError: expected colon")
  ELSE Continue([m EXCEPT !.stack = Push(Pop(m.stack), state.value)])

\* The case ObjectPostValue.
ObjectPostValue(m, state) ==
  IF m.token = "EndObject" THEN Continue([m EXCEPT !.stack = Pop(m.stack)])
  ELSE IF m.token = "ValueSeparator"
  THEN Continue([m EXCEPT !.stack = SetTopId(m.stack, "ObjectPreKey")])
  ELSE Throw(m, "Error: expected object end or comma")

\* A step before the switch that pushed the inner start state whatever the
\* token.
ArrayPostBeginAlwaysPush(stack, token) ==
  IF Top(stack).id = "ArrayPostBegin"
  THEN Push(SetTopId(stack, "ArrayPostValue"), Top(stack).value)
  ELSE stack

\* The step before the switch: an ArrayPostBegin state on top of the stack
\* becomes ArrayPreEnd on end-array, and otherwise ArrayPostValue with its
\* inner start state pushed, which is then the state the switch looks at.
ArrayPostBegin(stack, token) ==
  IF Top(stack).id = "ArrayPostBegin"
  THEN IF token = "EndArray" THEN SetTopId(stack, "ArrayPreEnd")
       ELSE Push(SetTopId(stack, "ArrayPostValue"), Top(stack).value)
  ELSE stack

\* The switch on state.id, for the token m.token and the stack as the step
\* before it left it.
Switch(m) ==
  LET state == Top(m.stack)
      id == state.id
  IN
  CASE id \in {"ValueBuffering", "ValueSkipping"} -> VisitValue(m, state)
    [] id = "ArrayPreBegin" -> ArrayPreBegin(m, state)
    [] id = "ArrayPostValue" -> ArrayPostValue(m, state)
    [] id = "ArrayPreEnd" -> ArrayPreEnd(m, state)
    [] id = "ObjectPreBegin" -> ObjectPreBegin(m, state)
    [] id = "ObjectPostBegin" -> ObjectPostBegin(m, state)
    [] id = "ObjectPreKey" -> ObjectPreKey(m, state)
    [] id = "ObjectPostKey" -> ObjectPostKey(m, state)
    [] id = "ObjectPostValue" -> ObjectPostValue(m, state)

\* A loop that took a token after the value at the top level for an error.
LoopBodyStrict(m) ==
  IF m.stack = <<>> THEN Throw(m, "SyntaxError: unexpected token")
  ELSE Switch([m EXCEPT !.stack = ArrayPostBegin(m.stack, m.token)])

\* One iteration of the for-await loop of visit, for the token the generator
\* yielded: up to the await of a visitor function's promise, the request
\* for the next token, or the end of visit.
LoopBody(m) ==
  IF m.stack = <<>> THEN Settle(m, "fulfilled")
  ELSE Switch([m EXCEPT !.stack = ArrayPostBegin(m.stack, m.token)])

\* The promise call i returned settles, as its function decides.
PromiseSettles(m, i) ==
  [m EXCEPT !.calls[i].status =
     IF m.calls[i].returns = "rejects" THEN "rejected" ELSE "fulfilled"]

\* An await that resumed with a rejection as with a fulfilment.
AwaitResumesAnyway(m) == Continue([m EXCEPT !.stack = Pop(m.stack)])

\* visit resumes after the await of a settled promise: a rejection is thrown
\* at the await, and otherwise the state of the value is popped.
AwaitResumes(m) ==
  IF m.calls[Len(m.calls)].status = "rejected" THEN Throw(m, "callback error")
  ELSE Continue([m EXCEPT !.stack = Pop(m.stack)])

\* The state when visit(stream, visitor) has run to its first await, the
\* request for the first token not yet made.
InitState(doc, visitor) ==
  [doc |-> doc, delivered |-> 0, nchunks |-> 0, streamDone |-> "no",
   pendingToken |-> NewScanner.pendingToken,
   pendingSkip |-> NewScanner.pendingSkip,
   pendingCont |-> NewScanner.pendingCont,
   buffering |-> FALSE, bufferedChunks |-> <<>>, currentChunk |-> <<>>,
   startIndex |-> 0, endIndex |-> 0, gen |-> "start", queue |-> <<>>,
   visitor |-> visitor, stack |-> <<stateFromVisitor(visitor)>>, depth |-> 0,
   token |-> "none", pc |-> "loop", calls |-> <<>>, outcome |-> "pending",
   lastEnd |-> 0, prevEnd |-> 0, valueFrom |-> 0]

\* ------------------------------------------------------------------------
\* The documents and visitors of the model.
\* ------------------------------------------------------------------------

\* The most chunks the upstream producer delivers a document in, empty
\* chunks included.
MaxChunks == 3

Returns == {"value", "throws", "promise", "rejects"}

KEY_A == <<"a">>
KEY_S == <<"s">>
KEY_BACKSLASH == <<BACKSLASH>>

Visitors ==
  {Function("f", r) : r \in Returns}
  \cup {array(Function("f", r)) : r \in Returns}
  \cup {Object(KEY_A :> Function("f", r1) @@ KEY_S :> Function("g", r2)) :
          r1 \in Returns, r2 \in Returns}
  \cup {Object(KEY_A :> Function("f", r)) : r \in {"value", "promise"}}
  \cup {array(Object(KEY_A :> Function("f", r))) : r \in {"value", "promise"}}
  \cup {array(array(Function("f", "value"))),
        Object(<<>>),
        Object(KEY_S :> array(Function("g", "value"))),
        Object(KEY_BACKSLASH :> Function("f", "value"))}

ValidDocs ==
  { <<"[", "1", "0", ",", "2", "]">>,
    <<"{", QUOTE, "a", QUOTE, ":", "1", ",", QUOTE, "s", QUOTE, ":", "[",
      "2", "]", "}">>,
    <<QUOTE, "a", BACKSLASH, QUOTE, "s", QUOTE>>,
    <<"[", "]">>,
    <<"{", "}">>,
    <<" ", "[", "1", " ", ",", "\n", QUOTE, "]", QUOTE, "]", " ">>,
    <<"{", QUOTE, "_", "_", "p", "r", "o", "t", "o", "_", "_", QUOTE, ":",
      "1", "}">>,
    <<"[", "{", QUOTE, "a", QUOTE, ":", "1", "}", ",", "{", QUOTE, "a",
      QUOTE, ":", "{", "}", "}", "]">>,
    <<"f", "a", "l", "s", "e">>,
    <<"1", "2">>,
    <<"[", "[", "1", "]", ",", "[", "]", "]">>,
    <<"[", "[", "1", "]", ",", "2", "]">>,
    <<"{", " ", QUOTE, BACKSLASH, BACKSLASH, QUOTE, ":", "1", "}">>,
    <<"{", QUOTE, "_", "_", "p", "r", "o", "t", "o", "_", "_", QUOTE, ":",
      "{", QUOTE, "a", QUOTE, ":", "1", "}", "}">>,
    <<"{", QUOTE, BACKSLASH, "t", QUOTE, ":", "1", ",", " ", QUOTE, "a",
      QUOTE, ":", QUOTE, BACKSLASH, BACKSLASH, QUOTE, "}">> }

InvalidDocs ==
  { <<"1", "a">>,
    <<"[", "}">>,
    <<",">>,
    <<QUOTE, "a">>,
    <<"[", "1", ",", "]">>,
    <<"{", QUOTE, "a", QUOTE, " ", "1", "}">>,
    <<"{", QUOTE, "a", QUOTE, ":", "1", ",", "}">>,
    <<"[", "1", " ", "2", "]">>,
    <<"{", "1", "a", ":", "2", "}">>,
    <<"{", "1", ":", "2", "}">>,
    <<QUOTE, BACKSLASH, "\n", QUOTE>>,
    <<"[", "1", "]", "]">>,
    <<"1", " ", "2">>,
    <<"[", "1", ",">>,
    <<"[", "1">>,
    <<"{", QUOTE, "a", QUOTE, ":", "[">>,
    <<"{", QUOTE, "s", QUOTE, ":", "}">>,
    <<"{", QUOTE, "a", QUOTE, ":", "1", " ", "2", "}">>,
    <<"{", ",">>,
    <<>> }

Docs == ValidDocs \cup InvalidDocs

\* ------------------------------------------------------------------------
\* The state machine.
\* ------------------------------------------------------------------------

VARIABLES doc, delivered, nchunks, streamDone,
          pendingToken, pendingSkip, pendingCont,
          buffering, bufferedChunks, currentChunk, startIndex, endIndex,
          gen, queue,
          visitor, stack, depth, token, pc, calls, outcome,
          lastEnd, prevEnd, valueFrom,
          scanned, pendingEnd, sentinels,
          visits, alone, lastIndex, ownIndex

vars == <<doc, delivered, nchunks, streamDone,
          pendingToken, pendingSkip, pendingCont,
          buffering, bufferedChunks, currentChunk, startIndex, endIndex,
          gen, queue,
          visitor, stack, depth, token, pc, calls, outcome,
          lastEnd, prevEnd, valueFrom,
          scanned, pendingEnd, sentinels,
          visits, alone, lastIndex, ownIndex>>

\* The variables of the scanner harness only (ScanSpec below): the tokens
\* a scanner has returned so far, each with the offset in doc where it
\* ends, that offset for the pending token, and the number of calls made
\* with no chunk.  The visit machine leaves them as they are.
scanVars == <<scanned, pendingEnd, sentinels>>

\* The variables of two visits that run together (PairSpec below): the
\* state of each visit, the state of each as it is when it runs alone on
\* the same chunks, the lastIndex of the patterns the two share, and the
\* lastIndex each would find when alone.  One visit by itself and the
\* scanner on its own leave them as they are.
pairVars == <<visits, alone, lastIndex, ownIndex>>

NoPair ==
  visits = <<>> /\ alone = <<>> /\ lastIndex = NewLastIndex /\ ownIndex = <<>>

\* The state as the record the operators above work on.
State ==
  [doc |-> doc, delivered |-> delivered, nchunks |-> nchunks,
   streamDone |-> streamDone, pendingToken |-> pendingToken,
   pendingSkip |-> pendingSkip, pendingCont |-> pendingCont,
   buffering |-> buffering, bufferedChunks |-> bufferedChunks,
   currentChunk |-> currentChunk, startIndex |-> startIndex,
   endIndex |-> endIndex, gen |-> gen, queue |-> queue,
   visitor |-> visitor, stack |-> stack, depth |-> depth, token |-> token,
   pc |-> pc, calls |-> calls, outcome |-> outcome, lastEnd |-> lastEnd,
   prevEnd |-> prevEnd, valueFrom |-> valueFrom]

\* The next state is the record m.
Becomes(m) ==
  /\ doc' = m.doc /\ delivered' = m.delivered /\ nchunks' = m.nchunks
  /\ streamDone' = m.streamDone /\ pendingToken' = m.pendingToken
  /\ pendingSkip' = m.pendingSkip /\ pendingCont' = m.pendingCont
  /\ buffering' = m.buffering /\ bufferedChunks' = m.bufferedChunks
  /\ currentChunk' = m.currentChunk /\ startIndex' = m.startIndex
  /\ endIndex' = m.endIndex /\ gen' = m.gen /\ queue' = m.queue
  /\ visitor' = m.visitor /\ stack' = m.stack /\ depth' = m.depth
  /\ token' = m.token /\ pc' = m.pc /\ calls' = m.calls
  /\ outcome' = m.outcome /\ lastEnd' = m.lastEnd /\ prevEnd' = m.prevEnd
  /\ valueFrom' = m.valueFrom
  /\ UNCHANGED scanVars
  /\ UNCHANGED pairVars

Init ==
  \E d \in Docs, v \in Visitors :
    /\ doc = d /\ delivered = 0 /\ nchunks = 0 /\ streamDone = "no"
    /\ pendingToken = Undefined /\ pendingSkip = 0
    /\ pendingCont = "STRING_CONT"
    /\ buffering = FALSE /\ bufferedChunks = <<>> /\ currentChunk = <<>>
    /\ startIndex = 0 /\ endIndex = 0 /\ gen = "start" /\ queue = <<>>
    /\ visitor = v /\ stack = <<stateFromVisitor(v)>> /\ depth = 0
    /\ token = "none" /\ pc = "loop" /\ calls = <<>> /\ outcome = "pending"
    /\ lastEnd = 0 /\ prevEnd = 0 /\ valueFrom = 0
    /\ scanned = <<>> /\ pendingEnd = 0 /\ sentinels = 0
    /\ NoPair

\* The lengths the next chunk may have: any part of what is left of the
\* document, and all of it when it is the last chunk the bound allows.
ChunkLengths ==
  {n \in 0 .. Len(doc) - delivered :
     nchunks + 1 < MaxChunks \/ n = Len(doc) - delivered}

\* for await (let token of tokens): visit asks for the next token.
RequestToken ==
  /\ pc = "loop"
  /\ Becomes(TokensNext(State))

\* A generator that took the next chunk as soon as the producer had it,
\* with tokens of the chunk before still to yield.
UpstreamChunkEager ==
  /\ pc \in {"awaitToken", "loop"} /\ gen \in {"awaitChunk", "yield"}
  /\ nchunks < MaxChunks
  /\ \E n \in ChunkLengths : Becomes(StreamChunk(State, n))

\* for await (currentChunk of stream): the producer delivers a chunk.
UpstreamChunk ==
  /\ pc = "awaitToken" /\ gen = "awaitChunk" /\ nchunks < MaxChunks
  /\ \E n \in ChunkLengths : Becomes(StreamChunk(State, n))

\* The producer ends, having delivered the whole document.
UpstreamEnd ==
  /\ pc = "awaitToken" /\ gen = "awaitChunk" /\ delivered = Len(doc)
  /\ Becomes(StreamEnd(State))

\* The producer fails.
UpstreamError ==
  /\ pc = "awaitToken" /\ gen = "awaitChunk"
  /\ Becomes(StreamError(State))

\* The body of the for-await loop, for the token received.
ProcessToken ==
  /\ pc = "body"
  /\ Becomes(LoopBody(State))

\* A promise returned by a visitor function settles.
PromiseSettle ==
  \E i \in DOMAIN calls :
    /\ calls[i].status = "pending"
    /\ Becomes(PromiseSettles(State, i))

\* An await that resumed before the promise had settled.
AwaitResumeEarly ==
  /\ pc = "awaitCallback"
  /\ Becomes(AwaitResumes(State))

\* The await of the promise returned by the last call resumes.
AwaitResume ==
  /\ pc = "awaitCallback"
  /\ calls[Len(calls)].status # "pending"
  /\ Becomes(AwaitResumes(State))

Next ==
  \/ RequestToken
  \/ UpstreamChunk
  \/ UpstreamEnd
  \/ UpstreamError
  \/ ProcessToken
  \/ PromiseSettle
  \/ AwaitResume

Spec == Init /\ [][Next]_vars

TypeOK ==
  /\ \A i \in DOMAIN doc : doc[i] \in Alphabet
  /\ delivered \in 0 .. Len(doc)
  /\ (pc # "done" => depth \in Nat)
  /\ 0 <= startIndex /\ startIndex <= endIndex /\ endIndex <= Len(currentChunk)
  /\ pc \in {"loop", "awaitToken", "body", "awaitCallback", "done"}
  /\ (pc = "done") = (outcome # "pending")

\* ------------------------------------------------------------------------
\* The scanner on its own: a fresh scanner is called with the chunks of a
\* text one after the other and with no chunk for the end of the stream,
\* as the scan helper of the tests calls it.  The text is any sequence of up
\* to MaxScanLen code units of ScanAlphabet, or a document of Docs.
\* ------------------------------------------------------------------------

\* The longest text of ScanAlphabet the scanner is given.
MaxScanLen == 4

\* The most calls with no chunk a scanner gets.
MaxSentinels == 2

\* A quote, a backslash, a code unit of a bare atom, a structural symbol,
\* and a code unit that is whitespace and a line terminator.
ScanAlphabet == {QUOTE, BACKSLASH, "1", ",", "\n"}

RECURSIVE Texts(_)
Texts(n) ==
  IF n = 0 THEN {<<>>}
  ELSE LET shorter == Texts(n - 1) IN
       shorter \cup {Append(text, c) :
                       text \in {x \in shorter : Len(x) = n - 1},
                       c \in ScanAlphabet}

ScanDocs == Texts(MaxScanLen) \cup Docs

\* The variables of visit and of the buffered stream, which the scanner on
\* its own leaves as they are.
visitVars ==
  <<buffering, bufferedChunks, startIndex, endIndex, gen, visitor, stack,
    depth, token, pc, calls, outcome, lastEnd, prevEnd, valueFrom>>

ScanInit ==
  /\ doc \in ScanDocs /\ delivered = 0 /\ nchunks = 0 /\ streamDone = "no"
  /\ pendingToken = NewScanner.pendingToken
  /\ pendingSkip = NewScanner.pendingSkip
  /\ pendingCont = NewScanner.pendingCont
  /\ buffering = FALSE /\ bufferedChunks = <<>> /\ currentChunk = <<>>
  /\ startIndex = 0 /\ endIndex = 0 /\ gen = "start" /\ queue = <<>>
  /\ visitor = Function("f", "value")
  /\ stack = <<stateFromVisitor(visitor)>> /\ depth = 0
  /\ token = "none" /\ pc = "loop" /\ calls = <<>> /\ outcome = "pending"
  /\ lastEnd = 0 /\ prevEnd = 0 /\ valueFrom = 0
  /\ scanned = <<>> /\ pendingEnd = 0 /\ sentinels = 0
  /\ NoPair

\* The tokens a call returned, with their ends as offsets in the text, for
\* a chunk that starts at offset base.
AbsoluteTokens(tokens, base) ==
  [k \in DOMAIN tokens |-> Token(tokens[k].type, base + tokens[k].endIndex)]

\* scan(chunk): the scanner is called with the next n code units of the
\* text; currentChunk is the chunk and queue the tokens the call returned.
ScanChunkCall ==
  /\ sentinels = 0 /\ nchunks < MaxChunks
  /\ \E n \in 0 .. Len(doc) - delivered :
       LET chunk == SubSeq(doc, delivered + 1, delivered + n)
           before == ScannerState(pendingToken, pendingSkip, pendingCont,
                                  <<>>)
           sc == ScanChunk(before, chunk)
           skipped == pendingToken # Undefined /\ pendingSkip >= Len(chunk)
       IN /\ pendingToken' = sc.pendingToken
          /\ pendingSkip' = sc.pendingSkip
          /\ pendingCont' = sc.pendingCont
          /\ queue' = sc.tokens
          /\ currentChunk' = chunk
          /\ delivered' = delivered + n
          /\ nchunks' = nchunks + 1
          /\ scanned' = scanned \o AbsoluteTokens(sc.tokens, delivered)
          /\ pendingEnd' = IF sc.pendingToken = Undefined \/ skipped
                           THEN pendingEnd
                           ELSE delivered + sc.pendingToken.endIndex
  /\ UNCHANGED <<doc, streamDone, sentinels>>
  /\ UNCHANGED visitVars
  /\ UNCHANGED pairVars

\* scan(): the scanner is called with no chunk.
ScanEndCall ==
  /\ sentinels < MaxSentinels
  /\ LET sc == ScanEnd(ScannerState(pendingToken, pendingSkip, pendingCont,
                                    <<>>))
     IN /\ pendingToken' = sc.pendingToken
        /\ pendingSkip' = sc.pendingSkip
        /\ pendingCont' = sc.pendingCont
        /\ queue' = sc.tokens
        /\ scanned' = scanned \o
             [k \in DOMAIN sc.tokens |-> Token(sc.tokens[k].type, pendingEnd)]
  /\ sentinels' = sentinels + 1
  /\ streamDone' = "end"
  /\ UNCHANGED <<doc, delivered, nchunks, currentChunk, pendingEnd>>
  /\ UNCHANGED visitVars
  /\ UNCHANGED pairVars

ScanNext == ScanChunkCall \/ ScanEndCall

ScanSpec == ScanInit /\ [][ScanNext]_vars

\* ------------------------------------------------------------------------
\* Two visits at once: two calls of visit, each with its own stream, scanner
\* and buffered stream, whose steps interleave where visit and the token
\* generator are suspended.  A call of the scanner runs to its end between
\* two suspensions, and uses the patterns of the module, which both share.
\* ------------------------------------------------------------------------

\* The most chunks the producer of each of the two visits delivers.
MaxPairChunks == 2

Visit == {1, 2}

\* The document and the visitor of a visit of the pair: an array of bare
\* atoms for an array visitor whose function returns a promise, and a
\* string with an escape for a function; both visits may get the same.
PairCases ==
  { [doc |-> <<"[", "1", "0", ",", "2", "]">>,
     visitor |-> array(Function("f", "promise"))],
    [doc |-> <<QUOTE, "a", BACKSLASH, QUOTE, "s", QUOTE>>,
     visitor |-> Function("f", "value")] }

\* The variables of the one visit and of the scanner harness.
scannerVars ==
  <<doc, delivered, nchunks, streamDone, pendingToken, pendingSkip,
    pendingCont, currentChunk, queue>>

PairInit ==
  /\ \E c1 \in PairCases, c2 \in PairCases :
       visits = <<InitState(c1.doc, c1.visitor), InitState(c2.doc, c2.visitor)>>
  /\ alone = visits
  /\ lastIndex = NewLastIndex
  /\ ownIndex = <<NewLastIndex, NewLastIndex>>
  /\ doc = <<>> /\ delivered = 0 /\ nchunks = 0 /\ streamDone = "no"
  /\ pendingToken = NewScanner.pendingToken
  /\ pendingSkip = NewScanner.pendingSkip
  /\ pendingCont = NewScanner.pendingCont
  /\ buffering = FALSE /\ bufferedChunks = <<>> /\ currentChunk = <<>>
  /\ startIndex = 0 /\ endIndex = 0 /\ gen = "start" /\ queue = <<>>
  /\ visitor = Function("f", "value")
  /\ stack = <<stateFromVisitor(visitor)>> /\ depth = 0
  /\ token = "none" /\ pc = "loop" /\ calls = <<>> /\ outcome = "pending"
  /\ lastEnd = 0 /\ prevEnd = 0 /\ valueFrom = 0
  /\ scanned = <<>> /\ pendingEnd = 0 /\ sentinels = 0

\* Visit i takes a step that calls no scanner with a chunk: it becomes m,
\* and so does its run alone, by.
PairBecomes(i, m, by) ==
  /\ visits' = [visits EXCEPT ![i] = m]
  /\ alone' = [alone EXCEPT ![i] = by]
  /\ UNCHANGED <<lastIndex, ownIndex>>
  /\ UNCHANGED <<scannerVars, visitVars, scanVars>>

\* The lengths the next chunk of a visit of the pair may have.
PairChunkLengths(m) ==
  {n \in 0 .. Len(m.doc) - m.delivered :
     m.nchunks + 1 < MaxPairChunks \/ n = Len(m.doc) - m.delivered}

PairRequestToken ==
  \E i \in Visit :
    /\ visits[i].pc = "loop"
    /\ PairBecomes(i, TokensNext(visits[i]), TokensNext(alone[i]))

\* The producer of visit i delivers a chunk: the scanner of the visit is
\* called with the patterns as the last call of either scanner left them.
PairUpstreamChunk ==
  \E i \in Visit :
    /\ visits[i].pc = "awaitToken" /\ visits[i].gen = "awaitChunk"
    /\ visits[i].nchunks < MaxPairChunks
    /\ \E n \in PairChunkLengths(visits[i]) :
         LET together == StreamChunkAt(visits[i], n, lastIndex)
             single == StreamChunkAt(alone[i], n, ownIndex[i])
         IN /\ visits' = [visits EXCEPT ![i] = together.m]
            /\ lastIndex' = together.lastIndex
            /\ alone' = [alone EXCEPT ![i] = single.m]
            /\ ownIndex' = [ownIndex EXCEPT ![i] = single.lastIndex]
    /\ UNCHANGED <<scannerVars, visitVars, scanVars>>

PairUpstreamEnd ==
  \E i \in Visit :
    /\ visits[i].pc = "awaitToken" /\ visits[i].gen = "awaitChunk"
    /\ visits[i].delivered = Len(visits[i].doc)
    /\ PairBecomes(i, StreamEnd(visits[i]), StreamEnd(alone[i]))

PairUpstreamError ==
  \E i \in Visit :
    /\ visits[i].pc = "awaitToken" /\ visits[i].gen = "awaitChunk"
    /\ PairBecomes(i, StreamError(visits[i]), StreamError(alone[i]))

PairProcessToken ==
  \E i \in Visit :
    /\ visits[i].pc = "body"
    /\ PairBecomes(i, LoopBody(visits[i]), LoopBody(alone[i]))

PairPromiseSettle ==
  \E i \in Visit :
    \E k \in DOMAIN visits[i].calls :
      /\ visits[i].calls[k].status = "pending"
      /\ PairBecomes(i, PromiseSettles(visits[i], k),
                     PromiseSettles(alone[i], k))

PairAwaitResume ==
  \E i \in Visit :
    /\ visits[i].pc = "awaitCallback"
    /\ visits[i].calls[Len(visits[i].calls)].status # "pending"
    /\ PairBecomes(i, AwaitResumes(visits[i]), AwaitResumes(alone[i]))

PairNext ==
  \/ PairRequestToken
  \/ PairUpstreamChunk
  \/ PairUpstreamEnd
  \/ PairUpstreamError
  \/ PairProcessToken
  \/ PairPromiseSettle
  \/ PairAwaitResume

PairSpec == PairInit /\ [][PairNext]_vars

\* ------------------------------------------------------------------------
\* Properties.
\* ------------------------------------------------------------------------

\* Two parsed values are the same value.
RECURSIVE SameValue(_, _)
SameValue(x, y) ==
  /\ x.t = y.t
  /\ CASE x.t = "array" ->
             /\ Len(x.v) = Len(y.v)
             /\ \A k \in DOMAIN x.v : SameValue(x.v[k], y.v[k])
        [] x.t = "object" ->
             /\ DOMAIN x.v = DOMAIN y.v
             /\ \A k \in DOMAIN x.v : SameValue(x.v[k], y.v[k])
        [] OTHER -> x.v = y.v

\* Two invocations of a visitor function are the same: function, argument,
\* the range of the document the argument was read from, and result.
SameCall(c, d) ==
  /\ c.name = d.name /\ c.status = d.status
  /\ c.from = d.from /\ c.to = d.to
  /\ SameValue(c.arg, d.arg)

\* visit over the stream of the single chunk [doc], run to its end: the
\* producer delivers the whole document at once and then ends, and every
\* promise settles as soon as it is awaited.
Drive(m) ==
  CASE m.pc = "loop" -> TokensNext(m)
    [] m.pc = "awaitToken" ->
         IF m.nchunks = 0 THEN StreamChunk(m, Len(m.doc)) ELSE StreamEnd(m)
    [] m.pc = "body" -> LoopBody(m)
    [] m.pc = "awaitCallback" ->
         IF m.calls[Len(m.calls)].status = "pending"
         THEN PromiseSettles(m, Len(m.calls))
         ELSE AwaitResumes(m)

RECURSIVE Run(_)
Run(m) == IF m.pc = "done" THEN m ELSE Run(Drive(m))

Unsplit(d, v) == Run(InitState(d, v))

\* C1: split invariance.  For a document that is valid JSON and a producer
\* that does not fail, however the document is cut into chunks, visit ends
\* with the same invocations of the visitor's functions (function, argument,
\* source range, result) in the same order, and settles the same way, as
\* visit over the single chunk holding the whole document.
SplitInvariance ==
  (pc = "done" /\ JSONParse(doc).ok /\ streamDone # "error") =>
    LET whole == Unsplit(doc, visitor) IN
    /\ outcome = whole.outcome
    /\ Len(calls) = Len(whole.calls)
    /\ \A k \in DOMAIN calls : SameCall(calls[k], whole.calls[k])

\* A valid document delivered in three chunks, one boundary inside a string
\* that holds a structural symbol, has been visited to the end with calls.
SplitInvarianceWitness ==
  /\ pc = "done" /\ outcome = "fulfilled" /\ JSONParse(doc).ok
  /\ nchunks = 3 /\ Len(calls) = 2
  /\ SameValue(calls[2].arg, [t |-> "string", v |-> <<"]">>])
  /\ Len(currentChunk) = 3

\* C2: array descent.  For the visitor array(f) with f a function, and a
\* document that is a JSON array of n elements, the k-th call of f receives
\* the parsed k-th element, f is never called more than n times, and a
\* visit that is fulfilled has called it exactly n times; the visit is
\* fulfilled whenever f and the producer do not fail.
ArrayDescent ==
  (/\ visitor.t = "array" /\ visitor.inner.t = "function"
   /\ JSONParse(doc).ok /\ JSONParse(doc).v.t = "array") =>
    LET elements == JSONParse(doc).v.v IN
    /\ Len(calls) <= Len(elements)
    /\ \A k \in DOMAIN calls :
         /\ calls[k].name = visitor.inner.name
         /\ SameValue(calls[k].arg, elements[k])
    /\ outcome = "fulfilled" => Len(calls) = Len(elements)
    /\ (/\ pc = "done" /\ streamDone # "error"
        /\ visitor.inner.returns \in {"value", "promise"}) =>
         outcome = "fulfilled"

\* array(f) has been applied to [10,2] delivered in several chunks, and f
\* was called with 10 and then with 2.
ArrayDescentWitness ==
  /\ visitor = array(Function("f", "promise"))
  /\ outcome = "fulfilled" /\ nchunks >= 2
  /\ Len(calls) = 2
  /\ SameValue(calls[1].arg, [t |-> "number", v |-> 10])
  /\ SameValue(calls[2].arg, [t |-> "number", v |-> 2])

\* C3: object descent.  When a key of an object under an object visitor has
\* been read, the value of a key that is an own key of the visitor's mapping
\* goes to that key's visitor, and the value of every other key, whatever
\* the key string, is skipped (ValueSkipping).
UnspecifiedKeysSkipped ==
  (pc = "loop" /\ stack # <<>> /\ Top(stack).id = "ObjectPostKey") =>
    LET key == PropertyKey(JSONParse(SubSeq(doc, prevEnd + 1, lastEnd)).v)
        mapping == stack[Len(stack) - 1].value.entries
    IN IF key \in DOMAIN mapping
       THEN Top(stack).value = stateFromVisitor(mapping[key])
       ELSE Top(stack).value.id = "ValueSkipping"

\* The values the visitor v selects in the syntax tree of a document, in
\* the order of the text, each with the function it goes to.  ok is FALSE
\* where the descent stops at a value that is no array under an array
\* visitor or no object under an object visitor, with the error for it.
RECURSIVE Select(_, _)
RECURSIVE SelectEach(_)
Select(tree, v) ==
  IF v.t = "function"
  THEN [ok |-> TRUE, error |-> "none",
        calls |-> <<[name |-> v.name, arg |-> JSONValue(tree)]>>]
  ELSE IF v.t = "array"
  THEN IF tree.t # "array"
       THEN [ok |-> FALSE, error |-> "SyntaxError: expected array",
             calls |-> <<>>]
       ELSE SelectEach([k \in DOMAIN tree.v |->
                          [tree |-> tree.v[k], visitor |-> v.inner]])
  ELSE IF tree.t # "object"
  THEN [ok |-> FALSE, error |-> "SyntaxError: expected object",
        calls |-> <<>>]
  ELSE LET named == SelectSeq(tree.v,
                              LAMBDA member : member.key \in DOMAIN v.entries)
       IN SelectEach([k \in DOMAIN named |->
                        [tree |-> named[k].value,
                         visitor |-> v.entries[named[k].key]]])

SelectEach(pairs) ==
  IF pairs = <<>> THEN [ok |-> TRUE, error |-> "none", calls |-> <<>>]
  ELSE LET first == Select(pairs[1].tree, pairs[1].visitor) IN
       IF ~first.ok THEN first
       ELSE LET rest == SelectEach(Tail(pairs)) IN
            [rest EXCEPT !.calls = first.calls \o rest.calls]

\* C4: leaf callbacks.  Every call of a visitor function was made after the
\* last token of its value was received, with the JSON parse of the text of
\* the document from the end of the token before the value's first token
\* to the end of its last token; and for a document that is valid JSON the
\* calls made are, in order and one each, the selected values of the
\* document, all of them when the visit is fulfilled.
LeafCallback ==
  /\ \A k \in DOMAIN calls :
       LET parsed == JSONParse(SubSeq(doc, calls[k].from + 1, calls[k].to)) IN
       /\ calls[k].from < calls[k].to /\ calls[k].to <= delivered
       /\ parsed.ok /\ SameValue(calls[k].arg, parsed.v)
  /\ JSONTree(doc).ok =>
       LET selected == Select(JSONTree(doc).v, visitor) IN
       /\ Len(calls) <= Len(selected.calls)
       /\ \A k \in DOMAIN calls :
            /\ calls[k].name = selected.calls[k].name
            /\ SameValue(calls[k].arg, selected.calls[k].arg)
       /\ outcome = "fulfilled" =>
            selected.ok /\ Len(calls) = Len(selected.calls)

\* A function is being called with an object whose text arrived in more
\* than one chunk.
LeafCallbackWitness ==
  /\ pc = "awaitCallback" /\ calls[Len(calls)].status = "pending"
  /\ calls[Len(calls)].arg.t = "object"
  /\ Len(bufferedChunks) >= 1
  /\ calls[Len(calls)].to - calls[Len(calls)].from > Len(currentChunk)

\* A promise returned by a visitor function has not settled yet.
PendingCall == \E i \in DOMAIN calls : calls[i].status = "pending"

\* Everything but the state of the promises the visitor functions returned.
progress ==
  <<doc, delivered, nchunks, streamDone, pendingToken, pendingSkip,
    pendingCont, buffering, bufferedChunks, currentChunk, startIndex,
    endIndex, gen, queue, visitor, stack, depth, token, pc, outcome,
    lastEnd, prevEnd, valueFrom>>

\* C5: while a promise returned by a visitor function is unsettled, nothing
\* happens but a promise settling: no token is requested, no chunk is
\* pulled from the producer, no token is processed, no function is called.
AwaitsCallback ==
  [][PendingCall => (UNCHANGED progress /\ Len(calls') = Len(calls))]_vars

\* visit waits for a promise while the generator holds tokens not yet
\* yielded and the producer has more of the document to deliver.
AwaitsCallbackWitness ==
  /\ PendingCall /\ pc = "awaitCallback"
  /\ queue # <<>> /\ delivered < Len(doc)

\* The promise a call returned is out of the way: the function returned a
\* value that is no promise, or the promise was fulfilled.
Completed(call) == call.status \in {"returned", "fulfilled"}

\* C6: the calls are in the order of the document, each for text after the
\* text of the one before; a function is called only when every earlier
\* call has completed, so at most one call is in progress; and visit is
\* settled only when no promise is left unsettled.
CallbacksInOrder ==
  /\ \A i \in DOMAIN calls : i < Len(calls) => Completed(calls[i])
  /\ \A i, j \in DOMAIN calls : i < j => calls[i].to <= calls[j].from
  /\ Cardinality({i \in DOMAIN calls : calls[i].status = "pending"}) <= 1
  /\ outcome # "pending" => ~PendingCall
  /\ outcome = "fulfilled" => \A i \in DOMAIN calls : Completed(calls[i])

\* Two promises were awaited one after the other and visit is fulfilled.
CallbacksInOrderWitness ==
  /\ outcome = "fulfilled" /\ Len(calls) = 2
  /\ calls[1].status = "fulfilled" /\ calls[2].status = "fulfilled"
  /\ calls[1].name # calls[2].name

\* Where an error leaves things: visit is over and rejected with it, the
\* token generator is closed; a call that threw or whose promise was
\* rejected is the last call made, and visit is rejected with its error (at
\* the latest when the await of the rejected promise resumes); an error of
\* the producer is the error visit is rejected with.
NoRecoveryState ==
  /\ outcome \notin {"pending", "fulfilled"} => pc = "done" /\ gen = "return"
  /\ \A i \in DOMAIN calls :
       /\ calls[i].status = "threw" =>
            i = Len(calls) /\ outcome = "callback error"
       /\ calls[i].status = "rejected" =>
            /\ i = Len(calls)
            /\ \/ outcome = "callback error"
               \/ outcome = "pending" /\ pc = "awaitCallback"
  /\ streamDone = "error" => outcome = "upstream error"

\* What a step may do: it starts from a visit that is not settled, and it
\* keeps every call made so far as it is, but for a pending promise settling.
NoRecoveryStep ==
  /\ outcome = "pending"
  /\ Len(calls') >= Len(calls)
  /\ \A i \in DOMAIN calls :
       /\ calls'[i] = [calls[i] EXCEPT !.status = calls'[i].status]
       /\ calls[i].status # "pending" => calls'[i].status = calls[i].status

\* C7: no recovery.  An error makes visit reject with it and end; once
\* visit is settled nothing happens any more (no token is processed, no
\* function is called), and the calls made before stay as they were.
NoRecovery == [][NoRecoveryStep /\ NoRecoveryState']_vars

\* The promise of the second call was rejected after the first call was
\* fulfilled; visit is rejected with tokens of the chunk left unprocessed.
NoRecoveryWitness ==
  /\ outcome = "callback error" /\ Len(calls) = 2
  /\ calls[1].status = "fulfilled" /\ calls[2].status = "rejected"
  /\ queue # <<>>

\* C8: for a document that is valid JSON with, at a position where the
\* visitor is an array visitor, a value that is no array, or under an object
\* visitor a value that is no object, a visit that no function and no
\* producer made fail is rejected with the syntax error for it, having
\* called the functions for the selected values before that value and no
\* other.
ShapeMismatch ==
  (/\ pc = "done" /\ streamDone # "error" /\ JSONTree(doc).ok
   /\ \A i \in DOMAIN calls : Completed(calls[i])) =>
    LET selected == Select(JSONTree(doc).v, visitor) IN
    ~selected.ok =>
      outcome = selected.error /\ Len(calls) = Len(selected.calls)

\* array(array(f)) met the number 2 where it expects an array, after f was
\* called for the array before it.
ShapeMismatchWitness ==
  /\ outcome = "SyntaxError: expected array" /\ token = "Atom"
  /\ Len(calls) = 1 /\ nchunks >= 2

\* The state the switch of visit looks at for the token received.
SwitchState == Top(ArrayPostBegin(stack, token))

\* The token received ends a value that is being buffered for a function.
ValueEnds ==
  /\ pc = "body" /\ stack # <<>>
  /\ SwitchState.id = "ValueBuffering"
  /\ depth + DEPTH_DELTA(token) = 0

\* The token received is read as a key of an object.
KeyRead ==
  /\ pc = "body" /\ stack # <<>> /\ token = "Atom"
  /\ SwitchState.id \in {"ObjectPreKey", "ObjectPostBegin"}

\* The text of the document behind the value or key the token ends.
BufferedText ==
  SubSeq(doc, (IF ValueEnds /\ depth > 0 THEN valueFrom ELSE prevEnd) + 1,
         lastEnd)

\* C9: when the text of a value buffered for a function, or of a key, is
\* not valid JSON, visit is rejected with the error of JSON.parse at the
\* token that ends it, and no function is called.
ParseFailurePropagates ==
  [][((ValueEnds \/ KeyRead) /\ ~JSONParse(BufferedText).ok) =>
       (/\ pc' = "done" /\ outcome' = "JSON.parse SyntaxError"
        /\ calls' = calls)]_vars

\* The text [} arrived in two chunks for a function and JSON.parse threw.
ParseFailurePropagatesWitness ==
  /\ outcome = "JSON.parse SyntaxError" /\ token = "EndObject"
  /\ Len(bufferedChunks) = 1 /\ calls = <<>>

\* C10: once the stack is empty, visit returns: it is over, or about to be,
\* and it neither takes a further token nor waits for a chunk or for the
\* end of the stream.
ReturnsOnceStackEmpty == stack = <<>> => pc \in {"loop", "done"}

\* The producer has ended with the value at the top level not complete.
EndedIncomplete == streamDone = "end" /\ (stack # <<>> \/ depth > 0)

\* C11: when the producer ends with the value at the top level not
\* complete, visit processes the tokens the scanner gave, the pending token
\* of the end of the stream among them, and a step that ends visit other
\* than by processing a token fulfils it and calls no function; a fulfilled
\* visit has left no token unprocessed, and made no call for the value it
\* was still buffering.
EndOfStreamResolves ==
  [][(EndedIncomplete' /\ pc' = "done" /\ pc \in {"loop", "awaitToken"}) =>
       (/\ outcome' = "fulfilled" /\ calls' = calls
        /\ queue' = <<>> /\ pendingToken' = Undefined
        /\ \A i \in DOMAIN calls :
             (buffering /\ depth > 0) => calls[i].to <= valueFrom)]_vars

\* The stream ended inside an array under a function: the value was being
\* buffered, no function was called and visit is fulfilled.
EndOfStreamResolvesWitness ==
  /\ outcome = "fulfilled" /\ streamDone = "end"
  /\ buffering /\ depth > 0 /\ Top(stack).id = "ValueBuffering"
  /\ calls = <<>> /\ nchunks >= 2

\* The text the buffered stream keeps in its saved chunk slices.
SavedText == Concat(bufferedChunks)

\* C12: selective memory bound, for a value that is being skipped.  While
\* the buffered stream waits for the next chunk with a skipped value on top
\* of the stack of visit, it keeps no material of that value from the
\* chunks before: its saved slices hold nothing but whitespace.
SkippedNotRetained ==
  (pc = "awaitToken" /\ stack # <<>> /\ Top(stack).id = "ValueSkipping") =>
    \A k \in DOMAIN SavedText : SavedText[k] \in Whitespace

\* C13: buffer fidelity.  Whenever a token has been yielded, what flush()
\* returns is the text of the document from the end of the token before the
\* one buffer() was called after (before the token just yielded, when
\* buffering is off) to the end of the token just yielded, across every
\* chunk boundary in between.  The token released at the end of the stream
\* ends where the stream ends.
BufferFidelity ==
  pc = "body" =>
    flush(State) =
      SubSeq(doc, (IF buffering THEN valueFrom ELSE prevEnd) + 1, lastEnd)

\* A token has been yielded while buffering, and the range buffered since
\* buffer() spans two chunk boundaries and several tokens.
BufferFidelityWitness ==
  /\ pc = "body" /\ buffering /\ depth >= 1
  /\ Len(bufferedChunks) = 2 /\ endIndex > 0
  /\ token = "EndArray"

\* The tokens of a whole text, read off the definition of a token: after
\* whitespace, a structural symbol is a token of its kind; a quote opens a
\* string atom that runs to the first quote not paired with a backslash
\* before it, a backslash pairing with the code unit after it whatever it
\* is (to the end of the text if there is none); any other code unit opens
\* a bare atom that runs to the next whitespace, structural symbol or quote.
\* Each token comes with the offset where it ends.
RECURSIVE LexStringEnd(_, _)
LexStringEnd(text, i) ==
  IF i >= Len(text) THEN Len(text)
  ELSE IF text[i + 1] = QUOTE THEN i + 1
  ELSE IF text[i + 1] = BACKSLASH
  THEN IF i + 2 > Len(text) THEN Len(text) ELSE LexStringEnd(text, i + 2)
  ELSE LexStringEnd(text, i + 1)

RECURSIVE LexAtomEnd(_, _)
LexAtomEnd(text, i) ==
  IF i < Len(text)
     /\ text[i + 1] \notin Whitespace \cup Structural \cup {QUOTE}
  THEN LexAtomEnd(text, i + 1)
  ELSE i

LexKind(c) ==
  CASE c = "{" -> "BeginObject" [] c = "}" -> "EndObject"
    [] c = "[" -> "BeginArray" [] c = "]" -> "EndArray"
    [] c = "," -> "ValueSeparator" [] c = ":" -> "NameSeparator"
    [] OTHER -> "Atom"

RECURSIVE Lex(_, _)
Lex(text, i) ==
  IF i >= Len(text) THEN <<>>
  ELSE LET c == text[i + 1] IN
    IF c \in Whitespace THEN Lex(text, i + 1)
    ELSE LET end == IF c \in Structural THEN i + 1
                    ELSE IF c = QUOTE THEN LexStringEnd(text, i + 1)
                    ELSE LexAtomEnd(text, i)
         IN <<Token(LexKind(c), end)>> \o Lex(text, end)

\* The scanner has been given the whole text and then the end of the stream.
ScannedAll == delivered = Len(doc) /\ sentinels >= 1

\* C14: token completeness.  For a text that is valid JSON, however it is
\* cut into chunks, the tokens a fresh scanner returns for the chunks and
\* then for the end of the stream are the tokens of the text, in the order
\* of the text, each ending where it ends in the text: every code unit that
\* is not whitespace between tokens is in exactly one token.
TokenCompleteness ==
  (ScannedAll /\ JSONParse(doc).ok) =>
    /\ scanned = Lex(doc, 0)
    /\ \A k \in DOMAIN scanned :
         k > 1 => scanned[k - 1].endIndex < scanned[k].endIndex

\* A valid document of several tokens was scanned in three chunks, the last
\* of one code unit.
TokenCompletenessWitness ==
  /\ ScannedAll /\ JSONParse(doc).ok
  /\ nchunks = 3 /\ Len(currentChunk) = 1 /\ Len(scanned) >= 5

\* No backslash is in the text; no quote is in the text.
NoBackslash(text) == \A k \in DOMAIN text : text[k] # BACKSLASH
NoQuote(text) == \A k \in DOMAIN text : text[k] # QUOTE

\* C15: token classification.  For a text with no backslash in a string
\* (no backslash at all, or no string at all), however it is
\* cut into chunks: outside a string every structural symbol is one token
\* of its kind that ends one past it, every maximal run of code units that
\* are neither whitespace, structural nor a quote is one atom, and
\* whitespace gives no token (none at all for a text of whitespace only).
TokenClassification ==
  (ScannedAll /\ (NoBackslash(doc) \/ NoQuote(doc))) =>
    /\ scanned = Lex(doc, 0)
    /\ (\A k \in DOMAIN doc : doc[k] \in Whitespace) => scanned = <<>>

\* The text 11,1 was scanned in three chunks: an atom, a comma, an atom.
TokenClassificationWitness ==
  /\ ScannedAll /\ nchunks = 3
  /\ doc = <<"1", "1", ",", "1">>
  /\ scanned = <<Token("Atom", 2), Token("ValueSeparator", 3),
                 Token("Atom", 4)>>
  /\ Len(currentChunk) = 2

\* The scanner holds a bare atom that reached the end of a chunk.
BareAtomPending == pendingToken # Undefined /\ pendingCont = "NS_ATOM_CONT"

\* The step is a call of the scanner with a chunk; with no chunk.
IsChunkCall == nchunks' = nchunks + 1
IsEndCall == sentinels' = sentinels + 1

\* The chunk ends with a code unit that is no whitespace, no structural
\* symbol and no quote.
EndsInAtomUnit(chunk) ==
  chunk # <<>> /\ chunk[Len(chunk)] \notin Whitespace \cup Structural \cup {QUOTE}

\* C16: a bare atom that reaches the end of its chunk.  A call whose chunk
\* ends with a code unit that is no delimiter returns no token that ends at
\* the end of the chunk and leaves a token pending, a bare atom when the
\* text so far has no string.  A pending bare atom is returned exactly once:
\* as the first token of the first later call whose chunk has a delimiter,
\* ending at that delimiter (at 0 if the chunk starts with it), calls whose
\* chunk has none return nothing and keep it pending, or by the call with no
\* chunk, which returns it alone and leaves nothing pending.
BareAtomAtChunkEnd ==
  [][LET chunk == currentChunk'
         n == Len(chunk)
         d == LexAtomEnd(chunk, 0)
     IN /\ (IsChunkCall /\ EndsInAtomUnit(chunk)) =>
             /\ \A k \in DOMAIN queue' : queue'[k].endIndex < n
             /\ pendingToken' # Undefined
             /\ NoQuote(SubSeq(doc, 1, delivered')) =>
                  BareAtomPending' /\ pendingToken' = Token("Atom", n)
        /\ (IsChunkCall /\ BareAtomPending) =>
             IF d < n
             THEN /\ queue' # <<>> /\ queue'[1] = Token("Atom", d)
                  /\ \A k \in DOMAIN queue' : k > 1 => queue'[k].endIndex > d
                  /\ pendingToken' # Undefined => pendingToken'.endIndex > d
             ELSE /\ queue' = <<>> /\ BareAtomPending'
                  /\ pendingToken' =
                       IF n = 0 THEN pendingToken ELSE Token("Atom", n)
        /\ (IsEndCall /\ BareAtomPending) =>
             queue' = <<pendingToken>> /\ pendingToken' = Undefined
    ]_vars

\* The atom 1 was left pending by the first chunk and returned, ending at
\* 0, by the second, which starts with a comma.
BareAtomAtChunkEndWitness ==
  /\ nchunks = 2 /\ sentinels = 0 /\ doc # <<>> /\ doc[1] = "1"
  /\ delivered - Len(currentChunk) = 1
  /\ currentChunk # <<>> /\ currentChunk[1] = ","
  /\ queue # <<>> /\ queue[1] = Token("Atom", 0)

\* Where the end of a text leaves the reader of its tokens: in no token
\* ("none"), in a bare atom ("atom"), in a string ("string"), or in a string
\* right after a backslash that pairs with nothing yet ("escape").
RECURSIVE LexOpen(_, _)
RECURSIVE LexStringOpen(_, _)
LexOpen(text, i) ==
  IF i >= Len(text) THEN "none"
  ELSE LET c == text[i + 1] IN
    IF c \in Whitespace \cup Structural THEN LexOpen(text, i + 1)
    ELSE IF c = QUOTE THEN LexStringOpen(text, i + 1)
    ELSE IF LexAtomEnd(text, i) = Len(text) THEN "atom"
    ELSE LexOpen(text, LexAtomEnd(text, i))

LexStringOpen(text, i) ==
  IF i >= Len(text) THEN "string"
  ELSE IF text[i + 1] = QUOTE THEN LexOpen(text, i + 1)
  ELSE IF text[i + 1] = BACKSLASH
  THEN IF i + 2 > Len(text) THEN "escape" ELSE LexStringOpen(text, i + 2)
  ELSE LexStringOpen(text, i + 1)

\* No backslash of the text is directly before a line terminator.
NoEscapedLineTerminator(text) ==
  \A k \in DOMAIN text :
    (text[k] = BACKSLASH /\ k < Len(text)) => text[k + 1] \notin LineTerminator

\* The scanner holds a string whose last chunk ended with a backslash that
\* pairs with nothing yet.
HangingEscape ==
  pendingToken # Undefined /\ pendingCont = "STRING_CONT" /\ pendingSkip = 1

\* The scanner holds a string and has no code unit to skip.
StringPending ==
  pendingToken # Undefined /\ pendingCont = "STRING_CONT" /\ pendingSkip = 0

\* C17: an escape split between chunks.  When the text given so far ends in
\* a string with an unpaired backslash (and has no backslash before a line
\* terminator), the scanner holds a hanging escape.  From a hanging escape,
\* exactly the next code unit is content of the string whatever it is: a
\* call with an empty chunk returns nothing and changes nothing; a call
\* with a chunk of one code unit returns nothing and leaves the string
\* pending with nothing more to skip; a call with a longer chunk does as it
\* would had the chunk started with an ordinary code unit, and a quote
\* second in the chunk closes the string.  With nothing to skip, a quote
\* first in the chunk closes the pending string.
SplitEscape ==
  [][LET chunk == currentChunk'
         n == Len(chunk)
         given == SubSeq(doc, 1, delivered')
         before == ScannerState(pendingToken, pendingSkip, pendingCont, <<>>)
         ordinary == ScanChunk(before, <<"1">> \o Tail(chunk))
     IN /\ (IsChunkCall /\ LexOpen(given, 0) = "escape"
                        /\ NoEscapedLineTerminator(given)) => HangingEscape'
        /\ (IsChunkCall /\ HangingEscape) =>
             CASE n = 0 ->
                    /\ queue' = <<>>
                    /\ UNCHANGED <<pendingToken, pendingSkip, pendingCont>>
               [] n = 1 ->
                    /\ queue' = <<>> /\ StringPending'
                    /\ pendingToken' = pendingToken
               [] OTHER ->
                    /\ queue' = ordinary.tokens
                    /\ pendingToken' = ordinary.pendingToken
                    /\ pendingSkip' = ordinary.pendingSkip
                    /\ pendingCont' = ordinary.pendingCont
                    /\ \A k \in DOMAIN queue' : queue'[k].endIndex >= 1
                    /\ chunk[2] = QUOTE =>
                         queue' # <<>> /\ queue'[1] = Token("Atom", 2)
        /\ (IsChunkCall /\ StringPending /\ n > 0 /\ chunk[1] = QUOTE) =>
             queue' # <<>> /\ queue'[1] = Token("Atom", 1)
    ]_vars

\* The text starts with a quote, a backslash and a quote and was given in
\* three chunks, the last one the second quote alone: the call returned
\* nothing and the string is still pending.
SplitEscapeWitness ==
  /\ nchunks = 3 /\ sentinels = 0 /\ delivered = 3
  /\ SubSeq(doc, 1, 3) = <<QUOTE, BACKSLASH, QUOTE>>
  /\ currentChunk = <<QUOTE>>
  /\ queue = <<>> /\ StringPending

\* The tokens of a text that end in the text: all of them, but the last
\* when the end of the text leaves it open.
LexComplete(text) ==
  LET all == Lex(text, 0) IN
  IF LexOpen(text, 0) = "none" THEN all ELSE SubSeq(all, 1, Len(all) - 1)

\* C18: strings within a single chunk.  The call of a fresh scanner with
\* the whole text as one chunk returns the tokens that end in the text,
\* where a string runs from its quote to the first quote not paired with a
\* backslash before it, a backslash pairs with the code unit after it
\* whatever it is (a line terminator too), and nothing inside a string is a
\* token.
StringInOneChunk ==
  (nchunks = 1 /\ sentinels = 0 /\ delivered = Len(doc)) =>
    queue = LexComplete(doc)

\* C19: the end of the stream.  A call with no chunk returns the pending
\* token alone if there is one and nothing otherwise, and leaves nothing
\* pending; every call with no chunk after the first returns nothing.
SentinelCall ==
  [][IsEndCall =>
       /\ queue' = IF pendingToken # Undefined THEN <<pendingToken>> ELSE <<>>
       /\ pendingToken' = Undefined
       /\ sentinels >= 1 => queue' = <<>>]_vars

\* A text that ends in a bare atom was given whole; the first call with no
\* chunk returned the atom and the second returned nothing.
SentinelCallWitness ==
  /\ sentinels = 2 /\ queue = <<>> /\ pendingToken = Undefined
  /\ delivered = Len(doc) /\ NoQuote(doc) /\ EndsInAtomUnit(doc)
  /\ scanned # <<>> /\ scanned[Len(scanned)] = Token("Atom", Len(doc))

\* A list of tokens that end in a chunk of n code units, each after the one
\* before it.
IsTokens(tokens, n) ==
  /\ \A k \in DOMAIN tokens :
       /\ tokens[k].type \in TokenType
       /\ tokens[k].endIndex \in 0 .. n
       /\ k > 1 => tokens[k - 1].endIndex < tokens[k].endIndex
  /\ Len(tokens) <= n + 1

\* C20: the scanner never fails.  In every state the scanner gets to, a
\* call with any chunk the rest of the text can give (the empty one too) and
\* a call with no chunk return a list of tokens and leave a scanner state;
\* a pending token is resumed inside the chunk; and from every position in
\* the chunk an iteration of the loop moves TOKEN_PREFIX.lastIndex forward
\* by at least one code unit and not past the end of the chunk, the token
\* starting at the end of the chunk (which ends the loop) or before the
\* new position.
ScannerNeverFails ==
  \A n \in 0 .. Len(doc) - delivered :
    LET chunk == SubSeq(doc, delivered + 1, delivered + n)
        before == ScannerState(pendingToken, pendingSkip, pendingCont, <<>>)
        sc == ScanChunk(before, chunk)
    IN /\ IsTokens(sc.tokens, n)
       /\ sc.pendingToken # Undefined =>
            /\ sc.pendingToken.type = "Atom"
            /\ sc.pendingToken.endIndex \in Nat
       /\ sc.pendingSkip \in {0, 1}
       /\ sc.pendingCont \in {"STRING_CONT", "NS_ATOM_CONT"}
       /\ IsTokens(ScanEnd(before).tokens, Len(doc))
       /\ (pendingToken # Undefined /\ pendingSkip < n) =>
            PendingContExec(pendingCont, chunk, pendingSkip).lastIndex
              \in pendingSkip .. n
       /\ \A i \in 0 .. n - 1 :
            LET match == TOKEN_PREFIX(chunk, i) IN
            /\ i <= match.startIndex /\ match.startIndex <= match.lastIndex
            /\ i < match.lastIndex /\ match.lastIndex <= n
            /\ match.startIndex = n \/ match.startIndex < match.lastIndex

\* A text of the greatest length that is no JSON and starts with a
\* backslash was given whole, and its last call returned tokens.
ScannerNeverFailsWitness ==
  /\ nchunks >= 2 /\ delivered = Len(doc) /\ Len(doc) = MaxScanLen
  /\ doc[1] = BACKSLASH /\ ~JSONParse(doc).ok
  /\ queue # <<>> /\ pendingToken # Undefined

\* C21: two visits at once.  Of two visits that run together on their own
\* streams and share the patterns of the module, each is at every moment
\* where it is when it runs alone on the same chunks: the same calls of the
\* visitor's functions with the same arguments and results, the same
\* outcome, the same token in hand and tokens to come, the same pending
\* token.
NoInterference ==
  \A i \in DOMAIN visits :
    LET together == visits[i]
        single == alone[i]
    IN /\ together.outcome = single.outcome /\ together.pc = single.pc
       /\ together.token = single.token
       /\ together.queue = single.queue
       /\ together.pendingToken = single.pendingToken
       /\ together.depth = single.depth
       /\ Len(together.stack) = Len(single.stack)
       /\ flush(together) = flush(single)
       /\ Len(together.calls) = Len(single.calls)
       /\ \A k \in DOMAIN together.calls :
            SameCall(together.calls[k], single.calls[k])

\* Visit 2 is suspended between its two chunks with a token pending; visit
\* 1 has had both its chunks scanned and been called back; the patterns are
\* not as the scanner of visit 2 left them, and the one that continues the
\* pending token of visit 2 is not where that token is to go on.
NoInterferenceWitness ==
  /\ visits # <<>>
  /\ visits[2].nchunks = 1 /\ visits[2].pc = "awaitToken"
  /\ visits[2].pendingToken # Undefined
  /\ visits[1].nchunks = 2 /\ visits[1].delivered = Len(visits[1].doc)
  /\ Len(visits[1].calls) >= 1
  /\ lastIndex.TOKEN_PREFIX # ownIndex[2].TOKEN_PREFIX
  /\ lastIndex[visits[2].pendingCont] # visits[2].pendingSkip

\* The token in hand ends a container right after its begin: an array or
\* object with nothing in it, under a visitor that descends into it.
EndsEmptyContainer ==
  /\ pc = "body" /\ stack # <<>>
  /\ \/ Top(stack).id = "ArrayPostBegin" /\ token = "EndArray"
     \/ Top(stack).id = "ObjectPostBegin" /\ token = "EndObject"

\* The document is [] or {} and the visitor descends into it.
EmptyDocument ==
  \/ doc = <<"[", "]">> /\ visitor.t = "array"
  \/ doc = <<"{", "}">> /\ visitor.t = "object"

\* C22: empty containers.  The end of an empty array under an array visitor
\* or of an empty object under an object visitor pops the container's state
\* and leaves nothing pushed for an element or a member, and calls no
\* function; for the document [] or {} the visit, once the stream has
\* ended, is fulfilled with an empty stack and no call made.
EmptyContainers ==
  [][/\ EndsEmptyContainer =>
          /\ Len(stack') = Len(stack) - 1
          /\ \A k \in DOMAIN stack' : stack'[k].id = stack[k].id
          /\ calls' = calls /\ pc' = "loop" /\ outcome' = "pending"
     /\ (EmptyDocument /\ pc' = "done" /\ streamDone' = "end") =>
          outcome' = "fulfilled" /\ stack' = <<>> /\ calls' = <<>>
    ]_vars

\* The document [], given in two chunks to an array visitor, was visited to
\* its end: no call, nothing on the stack.
EmptyContainersWitness ==
  /\ doc = <<"[", "]">> /\ visitor.t = "array" /\ nchunks = 2
  /\ Len(currentChunk) = 1
  /\ pc = "done" /\ outcome = "fulfilled" /\ stack = <<>> /\ calls = <<>>

\* C23: the scanner's invariant.  After every call of the scanner, if no
\* token is pending the number of code units to skip is zero (the scanner
\* has one variable for the pending token, so at most one is pending).
SkipZeroUnlessPending == pendingToken = Undefined => pendingSkip = 0

\* C24: end-indices.  Every token a call with a chunk returns ends between
\* 0 and the length of that chunk, a token resumed from an earlier chunk
\* with the end the resumption found in this chunk; the ends of the tokens
\* of one call grow strictly; and a token ends at 0 only if it is the first
\* of the call and was pending before it.
EndIndices ==
  [][IsChunkCall =>
       LET chunk == currentChunk'
           n == Len(chunk)
       IN /\ \A k \in DOMAIN queue' :
               /\ queue'[k].endIndex \in 0 .. n
               /\ k > 1 => queue'[k - 1].endIndex < queue'[k].endIndex
               /\ queue'[k].endIndex = 0 => k = 1 /\ pendingToken # Undefined
          /\ (pendingToken # Undefined /\ pendingSkip < n) =>
               LET match == IF pendingCont = "NS_ATOM_CONT"
                            THEN [lastIndex |-> LexAtomEnd(chunk, 0),
                                  closed |-> FALSE]
                            ELSE STRING_CONT(chunk, pendingSkip)
               IN IF match.lastIndex < n \/ match.closed
                  THEN /\ queue' # <<>>
                       /\ queue'[1] = Token(pendingToken.type, match.lastIndex)
                  ELSE pendingToken' # Undefined
    ]_vars

\* A call returned a token that was pending, ending at 0, and then the
\* comma its chunk starts with, ending at 1.
EndIndicesWitness ==
  /\ nchunks = 2 /\ sentinels = 0 /\ Len(queue) >= 2
  /\ queue[1] = Token("Atom", 0) /\ queue[2] = Token("ValueSeparator", 1)

\* The ends, as offsets in the text, of the tokens returned so far grow.
InSourceOrder ==
  \A k \in DOMAIN scanned : k > 1 => scanned[k - 1].endIndex < scanned[k].endIndex

\* C25: a pending token extends to the end of its chunk.  After the first
\* call, and after every call with a chunk of two code units or more (which
\* resumes or starts its pending token), a token left pending ends at the
\* end of the chunk; and the tokens come back in the order of the text,
\* whatever the chunks hold.
PendingReachesChunkEnd ==
  /\ (sentinels = 0 /\ pendingToken # Undefined
        /\ (nchunks = 1 \/ Len(currentChunk) >= 2)) =>
       pendingToken.endIndex = Len(currentChunk) /\ pendingEnd = delivered
  /\ InSourceOrder

\* The kinds of a list of tokens.
Kinds(tokens) == [k \in DOMAIN tokens |-> tokens[k].type]

\* The tokens a fresh scanner returns for a text as one chunk and then for
\* the end of the stream.
ScanWhole(text) ==
  LET one == ScanChunk(NewScanner, text)
  IN one.tokens \o ScanEnd(one).tokens

\* C26: chunking does not change the tokens.  For every text and every way
\* of cutting it into chunks, empty ones included, the kinds of the tokens
\* a fresh scanner returns for the chunks and then for the end of the
\* stream are those it returns for the text as one chunk and then for the
\* end of the stream.
ChunkingInvariance ==
  ScannedAll => Kinds(scanned) = Kinds(ScanWhole(doc))

\* C27: flush without buffering.  When a token is received with buffering
\* off, flush() returns the text of the document from the end of the token
\* yielded before it (from the start for the first) to the end of this
\* token, whatever chunks it came in: nothing of what an earlier flush()
\* returned, then whitespace if any, then the one token.
NonBufferedFlush ==
  (pc = "body" /\ ~buffering) =>
    LET text == flush(State) IN
    /\ prevEnd <= lastEnd
    /\ text = SubSeq(doc, prevEnd + 1, lastEnd)
    /\ prevEnd < lastEnd => Len(Lex(text, 0)) = 1

\* A string atom that follows whitespace was received with buffering off,
\* its text in two chunks, after other tokens.
NonBufferedFlushWitness ==
  /\ pc = "body" /\ ~buffering /\ token = "Atom"
  /\ bufferedChunks # <<>> /\ endIndex > 0
  /\ prevEnd > 0 /\ doc[prevEnd + 1] \in Whitespace /\ doc[lastEnd] = QUOTE

\* C28: keys.  When a token is read as the key of a member, buffering is
\* off and the depth is 0, and they stay so; the text flushed for it is the
\* text of the document since the token before it, which is whitespace if
\* any and then the one atom, whatever chunks it came in; JSON.parse gives
\* for that text what it gives for the atom alone; and the state pushed for
\* the member's value is the one of the property of the object visitor that
\* has the decoded name, the skipping state if there is none.
KeyDecoding ==
  [][KeyRead =>
       LET text == flush(State)
           atom == SubSeq(text, SkipWhitespace(text, 0) + 1, Len(text))
           parsed == JSONParse(atom)
       IN /\ ~buffering /\ depth = 0
          /\ text = SubSeq(doc, prevEnd + 1, lastEnd)
          /\ Lex(text, 0) = <<Token("Atom", Len(text))>>
          /\ JSONParse(text).ok = parsed.ok
          /\ parsed.ok =>
               LET found == Lookup(Top(stack).value, PropertyKey(parsed.v)) IN
               /\ SameValue(JSONParse(text).v, parsed.v)
               /\ ~buffering' /\ depth' = 0 /\ calls' = calls
               /\ found # Null =>
                    /\ pc' = "loop" /\ Len(stack') = Len(stack) + 1
                    /\ Top(stack').id = "ObjectPostKey"
                    /\ Top(stack').value.id =
                         IF found = Undefined THEN "ValueSkipping"
                         ELSE stateFromVisitor(found).id
    ]_vars

\* The key "\\" of the document, whose text came in two chunks after a
\* space, was decoded to the one backslash the visitor has a function for.
KeyDecodingWitness ==
  /\ pc = "loop" /\ token = "Atom" /\ stack # <<>>
  /\ Top(stack).id = "ObjectPostKey"
  /\ Top(stack).value.id = "ValueBuffering"
  /\ KEY_BACKSLASH \in DOMAIN visitor.entries
  /\ bufferedChunks # <<>> /\ endIndex > 0
  /\ prevEnd = 1 /\ lastEnd = 6

\* The step takes a chunk from the producer and calls the scanner with it;
\* the step takes the end of the stream and calls the scanner with no chunk.
ChunkPulled == nchunks' = nchunks + 1
EndPulled == streamDone = "no" /\ streamDone' = "end"

\* C29: tokens and chunks are serialized.  A chunk, or the end of the
\* stream, is taken from the producer and the scanner called only when the
\* consumer has asked for a token and waits for it and every token of the
\* calls before has been yielded; the tokens of a call are yielded in the
\* order the scanner returned them, one for each request of the consumer.
Serialized ==
  [][/\ (ChunkPulled \/ EndPulled) =>
          queue = <<>> /\ pc = "awaitToken" /\ gen = "awaitChunk"
     /\ ChunkPulled =>
          LET returned ==
                ScanChunk(ScannerState(pendingToken, pendingSkip, pendingCont,
                                       <<>>), currentChunk').tokens
          IN IF returned = <<>>
             THEN queue' = <<>> /\ pc' = "awaitToken" /\ token' = token
             ELSE /\ pc' = "body" /\ token' = returned[1].type
                  /\ queue' = Tail(returned)
     /\ (pc = "loop" /\ queue # <<>>) =>
          /\ pc' = "body" /\ token' = Head(queue).type
          /\ queue' = Tail(queue)
          /\ nchunks' = nchunks /\ streamDone' = streamDone
     /\ (pc \notin {"loop", "awaitToken"}) =>
          queue' = queue /\ nchunks' = nchunks /\ delivered' = delivered
    ]_vars

\* The second chunk was taken after the tokens of the first had been
\* yielded, and its first token has been yielded with others still to come.
SerializedWitness ==
  /\ nchunks = 2 /\ pc = "body" /\ queue # <<>>
  /\ delivered - Len(currentChunk) >= 2
  /\ prevEnd > 0 /\ prevEnd <= delivered - Len(currentChunk)
  /\ lastEnd > delivered - Len(currentChunk)

\* C30: the end of the stream.  When the producer ends, the scanner is
\* called with no chunk, once (the stream does not end again): nothing is
\* left pending, a token that was pending is yielded then, ending where the
\* document ends, and flush() gives its whole text, from the end of the
\* token before it if buffering is off; the request after it ends visit
\* with no further token.  So the documents 12 and false, for a function,
\* end with one call of it, with the number 12 and with false.
EndOfStreamToken ==
  [][/\ EndPulled =>
          /\ pendingToken' = Undefined /\ queue' = <<>>
          /\ IF pendingToken # Undefined
             THEN /\ pc' = "body" /\ gen' = "yieldEnd"
                  /\ token' = pendingToken.type
                  /\ lastEnd' = Len(doc) /\ prevEnd' = lastEnd
                  /\ ~buffering =>
                       /\ flush(State)' = SubSeq(doc, lastEnd + 1, Len(doc))
                       /\ Len(Lex(flush(State)', 0)) = 1
             ELSE pc' = "done" /\ outcome' = "fulfilled"
     /\ streamDone = "end" => streamDone' = "end" /\ nchunks' = nchunks
     /\ (pc = "loop" /\ gen = "yieldEnd") =>
          pc' = "done" /\ outcome' = "fulfilled" /\ calls' = calls
     /\ (pc' = "done" /\ streamDone' = "end" /\ visitor.t = "function"
          /\ visitor.returns = "value"
          /\ doc \in {<<"1", "2">>, <<"f", "a", "l", "s", "e">>}) =>
          /\ outcome' = "fulfilled" /\ Len(calls') = 1
          /\ calls'[1].name = visitor.name
          /\ SameValue(calls'[1].arg, JSONParse(doc).v)
    ]_vars

\* The document 12 came in two chunks and ended; the function was called
\* once, with the number 12, and visit is fulfilled.
EndOfStreamTokenWitness ==
  /\ doc = <<"1", "2">> /\ nchunks = 2 /\ Len(currentChunk) = 1
  /\ streamDone = "end" /\ pc = "done" /\ outcome = "fulfilled"
  /\ visitor.t = "function" /\ Len(calls) = 1
  /\ calls[1].arg = [t |-> "number", v |-> 12]

\* visit waits for the next token: it has asked the generator for one, or
\* is about to.
WaitsForToken == pc \in {"loop", "awaitToken"}

ValueStates == {"ValueBuffering", "ValueSkipping"}

\* C31: depth and the stack.  Whenever visit waits for the next token,
\* depth is not negative, and it is above zero only with a ValueBuffering
\* or ValueSkipping state on top of the stack; a token that the switch
\* handles in one of the array or object states is handled with depth zero.
DepthLocalToValue ==
  /\ WaitsForToken =>
       /\ depth >= 0
       /\ depth > 0 => stack # <<>> /\ Top(stack).id \in ValueStates
  /\ (pc = "body" /\ stack # <<>> /\ SwitchState.id \notin ValueStates) =>
       depth = 0

\* visit waits for a token two levels inside an array it buffers for a
\* function, in the second chunk or later.
DepthLocalToValueWitness ==
  /\ pc = "awaitToken" /\ depth = 2 /\ nchunks >= 2
  /\ Top(stack).id = "ValueBuffering" /\ Len(stack) = 1

\* Between tokens the flag of the buffered stream is on exactly inside a
\* value that is buffered for a function.
BufferingInsideValue ==
  WaitsForToken =>
    (buffering <=> (/\ stack # <<>> /\ Top(stack).id = "ValueBuffering"
                    /\ depth > 0))

\* C32: buffer() and flush() once per selected value.  The first token of a
\* value buffered for a function (depth zero) finds the flag off and is the
\* token buffer() is called on (the value is buffered from the end of the
\* token before it); every later token of the value finds the flag on and
\* the start of the value where it was; the flag stays on until the last
\* token of the value (depth back to zero), which flushes it: the flag is
\* off again, and the function is called with the text from the start of
\* the value to that token when it parses.  Under every other state, and
\* in the steps that process no token, the flag is off or unchanged.
\* Whenever visit waits for the next token the flag is on if and only if
\* the state on top is ValueBuffering with depth above zero.
BufferOncePerValue ==
  [][/\ (pc = "body" /\ stack # <<>>) =>
          LET state == SwitchState
              after == depth + DEPTH_DELTA(token)
          IN IF state.id = "ValueBuffering"
             THEN /\ depth = 0 => ~buffering /\ valueFrom' = prevEnd
                  /\ depth > 0 => buffering /\ valueFrom' = valueFrom
                  /\ after > 0 => buffering' /\ calls' = calls
                  /\ after = 0 =>
                       /\ ~buffering'
                       /\ flush(State)' = SubSeq(doc, valueFrom' + 1, lastEnd)
                       /\ JSONParse(flush(State)').ok =>
                            /\ Len(calls') = Len(calls) + 1
                            /\ calls'[Len(calls')].from = valueFrom'
                            /\ calls'[Len(calls')].to = lastEnd
             ELSE ~buffering /\ ~buffering' /\ calls' = calls
     /\ pc # "body" => buffering' = buffering
     /\ BufferingInsideValue'
    ]_vars

\* After the function of one member was called, visit waits for a token
\* inside the array it buffers for the function of the next member.
BufferOncePerValueWitness ==
  /\ pc = "awaitToken" /\ buffering /\ depth = 1 /\ Len(stack) = 2
  /\ Top(stack).id = "ValueBuffering" /\ Top(stack).value.name = "g"
  /\ Len(calls) = 1 /\ calls[1].name = "f" /\ bufferedChunks # <<>>

\* The token received is the first of a value (depth zero under a
\* ValueBuffering or ValueSkipping state) and ends an array or an object.
EndWhereValueStarts ==
  /\ pc = "body" /\ stack # <<>>
  /\ SwitchState.id \in ValueStates /\ depth = 0
  /\ token \in {"EndArray", "EndObject"}

\* C33: an end-array or end-object token where a value must start makes
\* depth negative, and visit is rejected with the syntax error for
\* unbalanced delimiters in that step, with no function called for it.
UnbalancedDelimiters ==
  [][EndWhereValueStarts =>
       (/\ depth' = -1 /\ pc' = "done"
        /\ outcome' = "SyntaxError: unbalanced delimiters"
        /\ calls' = calls)]_vars

\* [1,] under an array visitor: the function was called for 1, and the ]
\* after the comma ended visit with the error.
UnbalancedDelimitersWitness ==
  /\ doc = <<"[", "1", ",", "]">> /\ visitor.t = "array"
  /\ outcome = "SyntaxError: unbalanced delimiters" /\ token = "EndArray"
  /\ depth = -1 /\ Len(calls) = 1 /\ Top(stack).id = "ValueBuffering"

\* The token received comes after an element of an array visit descends
\* into: the state on top is ArrayPostValue.
AfterElement ==
  pc = "body" /\ stack # <<>> /\ Top(stack).id = "ArrayPostValue"

\* What the case ArrayPostValue does with end-array and with a comma: it
\* pops the state of the array, or pushes the inner start state the state
\* of the array holds, and asks for the next token.
ArrayPostValueAccepts ==
  [][AfterElement =>
       /\ token = "EndArray" => stack' = Pop(stack) /\ pc' = "loop"
       /\ token = "ValueSeparator" =>
            stack' = Push(stack, Top(stack).value) /\ pc' = "loop"
       /\ token \notin {"EndArray", "ValueSeparator"} =>
            pc' = "done" /\ outcome' \notin {"pending", "fulfilled"}
       /\ calls' = calls /\ depth' = depth
    ]_vars

\* C34: after an element of an array visit descends into, end-array pops
\* the state of the array, a comma pushes the inner start state for the
\* next element, and any other token makes visit reject with a syntax
\* error.
AfterArrayElement ==
  [][AfterElement =>
       /\ token = "EndArray" => stack' = Pop(stack) /\ pc' = "loop"
       /\ token = "ValueSeparator" =>
            stack' = Push(stack, Top(stack).value) /\ pc' = "loop"
       /\ token \notin {"EndArray", "ValueSeparator"} =>
            pc' = "done" /\ outcome' \in SyntaxErrors
    ]_vars

\* The token received is handled by a state of an object visit descends
\* into, and is none that state accepts: no atom where a key is expected
\* (end-object, too, after a comma), no colon after a key, neither a comma
\* nor end-object after a value.
ObjectMismatch ==
  /\ pc = "body" /\ stack # <<>>
  /\ \/ Top(stack).id = "ObjectPreKey" /\ token # "Atom"
     \/ Top(stack).id = "ObjectPostBegin" /\ token \notin {"Atom", "EndObject"}
     \/ Top(stack).id = "ObjectPostKey" /\ token # "NameSeparator"
     \/ /\ Top(stack).id = "ObjectPostValue"
        /\ token \notin {"ValueSeparator", "EndObject"}

\* What the states of an object do with the tokens they accept, and that a
\* token they do not accept ends visit with a rejection and no call: a key
\* that parses leaves ObjectPostValue with ObjectPostKey on it, the colon
\* replaces ObjectPostKey by the start state of the value, a comma after
\* the value makes the state ObjectPreKey, and end-object pops it.
ObjectStatesAccept ==
  [][(pc = "body" /\ stack # <<>>) =>
       LET id == Top(stack).id IN
       /\ ObjectMismatch =>
            /\ pc' = "done" /\ outcome' \notin {"pending", "fulfilled"}
            /\ calls' = calls
       /\ (id \in {"ObjectPreKey", "ObjectPostBegin"} /\ token = "Atom"
            /\ pc' = "loop") =>
            /\ Len(stack') = Len(stack) + 1
            /\ Top(stack').id = "ObjectPostKey"
            /\ Top(Pop(stack')).id = "ObjectPostValue"
       /\ (id = "ObjectPostKey" /\ token = "NameSeparator") =>
            stack' = Push(Pop(stack), Top(stack).value) /\ pc' = "loop"
       /\ (id = "ObjectPostValue" /\ token = "ValueSeparator") =>
            stack' = SetTopId(stack, "ObjectPreKey") /\ pc' = "loop"
       /\ (id \in {"ObjectPostValue", "ObjectPostBegin"}
            /\ token = "EndObject") =>
            stack' = Pop(stack) /\ pc' = "loop"
    ]_vars

\* C35: inside an object visit descends into, a token other than an atom
\* where a key is expected (end-object after a comma included), other than
\* a colon after a key, or other than a comma or end-object after a value,
\* makes visit reject with a syntax error.
ObjectSequence ==
  [][ObjectMismatch => pc' = "done" /\ outcome' \in SyntaxErrors]_vars

\* C36: the state of an array is popped only on end-array, and ArrayPreEnd
\* lasts no longer than a step.  No state of the stack is ArrayPreEnd when
\* a token arrives; the switch sees ArrayPreEnd only for an ArrayPostBegin
\* state and the token end-array, and pops it in that step; and a step
\* that leaves the stack shorter by the state of an array processed
\* end-array.
ArrayPoppedOnEndArray ==
  [][/\ \A i \in DOMAIN stack' : stack'[i].id # "ArrayPreEnd"
     /\ (pc = "body" /\ stack # <<>>) =>
          /\ SwitchState.id = "ArrayPreEnd" =>
               /\ token = "EndArray" /\ Top(stack).id = "ArrayPostBegin"
               /\ stack' = Pop(stack) /\ pc' = "loop"
          /\ (Top(stack).id \in ArrayStates /\ Len(stack') < Len(stack)) =>
               token = "EndArray" /\ stack' = Pop(stack)
    ]_vars

\* In [[1],[]] under array(array(f)) the ] of the empty array has been
\* processed: the state of the inner array is gone, that of the outer one
\* is on top.
ArrayPoppedOnEndArrayWitness ==
  /\ doc = <<"[", "[", "1", "]", ",", "[", "]", "]">>
  /\ visitor = array(array(Function("f", "value")))
  /\ pc = "loop" /\ token = "EndArray" /\ lastEnd = 7
  /\ Len(stack) = 1 /\ Top(stack).id = "ArrayPostValue" /\ Len(calls) = 1

\* The state is the inner start state of an array visitor of v: of v
\* itself, or of a visitor inside v.
RECURSIVE IsInnerStartIn(_, _)
IsInnerStartIn(state, v) ==
  CASE v.t = "array" ->
         \/ /\ state.id = stateFromVisitor(v.inner).id
            /\ state = stateFromVisitor(v.inner)
         \/ IsInnerStartIn(state, v.inner)
    [] v.t = "object" ->
         \E key \in DOMAIN v.entries : IsInnerStartIn(state, v.entries[key])
    [] OTHER -> FALSE

\* The token received starts an element of an array: the state on top is
\* ArrayPostBegin and the token is not end-array, or it is ArrayPostValue
\* and the token is a comma.
ElementStarts ==
  /\ pc = "body" /\ stack # <<>>
  /\ \/ Top(stack).id = "ArrayPostBegin" /\ token # "EndArray"
     \/ Top(stack).id = "ArrayPostValue" /\ token = "ValueSeparator"

\* C37: the inner start state of the state of an array is the one made
\* from the inner visitor for as long as the state is on the stack, however
\* many elements are processed: every state of an array on the stack holds
\* the start state of the inner visitor of an array visitor, a step leaves
\* it as it is, and the state pushed for an element is that start state,
\* so that each element is handled from the start state of the inner
\* visitor (ObjectPreBegin with all keys, for an array of objects).
InnerStartStateKept ==
  [][/\ \A i \in DOMAIN stack' :
          stack'[i].id \in ArrayStates =>
            /\ IsInnerStartIn(stack'[i].value, visitor)
            /\ (i \in DOMAIN stack /\ stack[i].id \in ArrayStates) =>
                 stack'[i].value = stack[i].value
     /\ (ElementStarts /\ Top(stack).id = "ArrayPostValue") =>
          /\ stack' = Push(stack, Top(stack).value)
          /\ IsInnerStartIn(Top(stack'), visitor)
     /\ (ElementStarts /\ Top(stack).id = "ArrayPostBegin") =>
          /\ SwitchState = Top(stack).value
          /\ IsInnerStartIn(SwitchState, visitor)
    ]_vars

\* In an array of objects the first object was handled and the function
\* called for its member; the comma pushed the state for the second
\* object, which is ObjectPreBegin with the object visitor.
InnerStartStateKeptWitness ==
  /\ visitor.t = "array" /\ visitor.inner.t = "object"
  /\ pc = "loop" /\ token = "ValueSeparator" /\ Len(calls) = 1
  /\ Len(stack) = 2 /\ stack[1].id = "ArrayPostValue"
  /\ Top(stack) = VisitState("ObjectPreBegin", visitor.inner)

\* The greatest of a set of natural numbers, zero for the empty set.
Max(S) == IF S = {} THEN 0 ELSE CHOOSE x \in S : \A y \in S : y <= x

\* How deep a visitor nests: a function not at all, an array or object
\* visitor one level more than the deepest visitor in it.
RECURSIVE SchemaDepth(_)
SchemaDepth(v) ==
  CASE v.t = "function" -> 0
    [] v.t = "array" -> 1 + SchemaDepth(v.inner)
    [] v.t = "object" ->
         1 + Max({SchemaDepth(v.entries[key]) : key \in DOMAIN v.entries})

\* The document has the key __proto__ somewhere.
RECURSIVE HasProtoKeyFrom(_, _)
HasProtoKeyFrom(text, i) ==
  /\ i + Len(PROTO) + 1 <= Len(text)
  /\ \/ /\ text[i] = QUOTE
        /\ SubSeq(text, i + 1, i + Len(PROTO)) = PROTO
        /\ text[i + Len(PROTO) + 1] = QUOTE
     \/ HasProtoKeyFrom(text, i + 1)

\* A token inside a value that is buffered or skipped, which does not end
\* the value, changes depth by its delta and leaves the stack as it is;
\* and for a document with no key __proto__ the stack is never longer
\* than the visitor is deep, plus one.
NestingLeavesStack ==
  [][/\ (/\ pc = "body" /\ stack # <<>> /\ Top(stack).id \in ValueStates
         /\ depth + DEPTH_DELTA(token) > 0) =>
          /\ stack' = stack /\ depth' = depth + DEPTH_DELTA(token)
          /\ calls' = calls
     /\ ~HasProtoKeyFrom(doc, 1) => Len(stack') <= SchemaDepth(visitor) + 1
    ]_vars

\* C38: the stack is never longer than the visitor is deep, plus one,
\* however deep the document nests.
StackWithinSchema == Len(stack) <= SchemaDepth(visitor) + 1

\* The token received belongs to a member value that is skipped.
SkipsToken == pc = "body" /\ stack # <<>> /\ Top(stack).id = "ValueSkipping"

\* C39: a member value that is skipped takes exactly its own tokens.  In a
\* document that is valid JSON, the value skipped is the value that stands
\* after the colon; every token of it but the last leaves the
\* ValueSkipping state on the stack, and its last token (the token that
\* ends where the value ends) pops it, with depth back at zero and the
\* state of the enclosing object on top, which then gets the comma or the
\* end-object that follows.  No token of the value calls buffer() or a
\* function or fails in JSON.parse.
SkippingTakesOneValue ==
  [][/\ (SkipsToken /\ JSONTree(doc).ok) =>
          LET from == IF depth = 0 THEN prevEnd ELSE valueFrom
              value == ParseValue(doc, from + 1)
          IN /\ value.ok /\ lastEnd <= value.i - 1
             /\ IF lastEnd = value.i - 1
                THEN /\ stack' = Pop(stack) /\ depth' = 0
                     /\ Top(stack').id = "ObjectPostValue"
                ELSE stack' = stack /\ depth' > 0
             /\ pc' = "loop" /\ outcome' = "pending"
             /\ calls' = calls /\ ~buffering /\ ~buffering'
     /\ (pc = "body" /\ stack # <<>> /\ Top(stack).id = "ObjectPostValue"
          /\ JSONTree(doc).ok) =>
          token \in {"ValueSeparator", "EndObject"}
    ]_vars

\* {"a":1,"s":[2]} under {a: f}: f was called for 1, and the ] of the
\* array of s, which came in a later chunk than its [, has popped the
\* ValueSkipping state.
SkippingTakesOneValueWitness ==
  /\ doc = <<"{", QUOTE, "a", QUOTE, ":", "1", ",", QUOTE, "s", QUOTE, ":",
             "[", "2", "]", "}">>
  /\ visitor.t = "object" /\ DOMAIN visitor.entries = {KEY_A}
  /\ pc = "loop" /\ token = "EndArray" /\ lastEnd = 14 /\ valueFrom = 11
  /\ depth = 0 /\ Len(stack) = 1 /\ Top(stack).id = "ObjectPostValue"
  /\ Len(calls) = 1 /\ nchunks = 3

\* C40: tokens after the value at the top level are not dispatched.  Once
\* the stack is empty it stays empty and no function is called any more;
\* a token received with the stack empty, whatever it is, ends visit, which
\* is fulfilled, with the tokens after it left where they are; and visit
\* is rejected from then on only with an error of the producer.
TrailingTokensIgnored ==
  [][(stack = <<>> /\ outcome = "pending") =>
       /\ stack' = <<>> /\ calls' = calls /\ depth' = depth
       /\ pc = "body" =>
            /\ pc' = "done" /\ outcome' = "fulfilled"
            /\ queue' = queue /\ token' = token
       /\ outcome' # "pending" =>
            \/ outcome' = "fulfilled"
            \/ outcome' = "upstream error" /\ streamDone' = "error"
    ]_vars

\* [1]] under an array visitor: the function was called for 1, the second
\* ] was received with the stack empty and visit is fulfilled.
TrailingTokensIgnoredWitness ==
  /\ doc = <<"[", "1", "]", "]">> /\ visitor.t = "array"
  /\ pc = "done" /\ outcome = "fulfilled" /\ stack = <<>>
  /\ token = "EndArray" /\ lastEnd = 4 /\ Len(calls) = 1
====
